---- MODULE Spec2Model ----
(***************************************************************************)
(* Model of freecad_sketch_reader: the Document.xml scan                   *)
(* (read_sketches_from_xml / read_sketches), the sketch assembler          *)
(* (_parse_sketch_object) and the geometry and constraint decoders of      *)
(* parser.py, with the record constructors of models.py and the tables of  *)
(* enums.py.                                                               *)
(*                                                                         *)
(* An XML element is a record [tag, attrs, kids]: attrs maps attribute     *)
(* names to their string values, kids is the sequence of child elements in *)
(* document order.  A Python call either returns a value, Ok(v), or raises *)
(* an exception, Raise(class, message kind).  Floats are whole numbers;    *)
(* the points and lengths a property of models.py computes from them are   *)
(* fixed-point numbers in thousandths, with cos and sin tabulated for      *)
(* whole radians, so that rounding is not that of floating point.          *)
(*                                                                         *)
(* Spec is the reader with the consumer of its result, who may write to a  *)
(* returned model.  GeometrySpec is a consumer reading the derived         *)
(* properties (end points, knot sequence, foci) of a geometry object.      *)
(*                                                                         *)
(* Not modelled: the loading of the package (models.py imports a name,     *)
(* ConstraintTypeName, that enums.py does not define), documents that are  *)
(* not well-formed XML, and files that are not zip archives.  The model    *)
(* starts from a parsed tree and describes what the functions do.          *)
(***************************************************************************)
EXTENDS Integers, Sequences, FiniteSets, TLC

\* ------------------------------------------------------------------------
\* xml.etree.ElementTree as parser.py uses it
\* ------------------------------------------------------------------------

NoAttrs == [a \in {} |-> ""]

El(tag, attrs, kids) == [tag |-> tag, attrs |-> attrs, kids |-> kids]

\* An element without children
Leaf(tag, attrs) == El(tag, attrs, <<>>)

\* el.get(attr) is not None
Has(el, attr) == attr \in DOMAIN el.attrs

\* el.get(attr, default)
Get(el, attr, default) == IF Has(el, attr) THEN el.attrs[attr] ELSE default

\* el.findall(tag): the direct children with that tag, in document order
FindAll(el, tag) == SelectSeq(el.kids, LAMBDA k : k.tag = tag)

\* el.find(tag) is not None
HasChild(el, tag) == FindAll(el, tag) # <<>>

\* el.find(tag), where HasChild(el, tag): the first such child
Find(el, tag) == FindAll(el, tag)[1]

\* ------------------------------------------------------------------------
\* Python values: results, exceptions, int() and float()
\* ------------------------------------------------------------------------

Ok(v) == [ok |-> TRUE, val |-> v]

Raise(cls, msg) == [ok |-> FALSE, cls |-> cls, msg |-> msg]

\* The numerals int() accepts, with their values.
IntLiteral ==
    ("-2000" :> -2000) @@ ("-3" :> -3) @@ ("-2" :> -2) @@ ("-1" :> -1) @@
    ("0" :> 0) @@ ("1" :> 1) @@ ("2" :> 2) @@ ("3" :> 3) @@ ("4" :> 4) @@
    ("13" :> 13) @@ ("19" :> 19) @@ ("20" :> 20) @@ ("+1" :> 1) @@ ("-01" :> -1)

\* The numerals float() accepts: those of int() and the decimal forms.
FloatLiteral ==
    IntLiteral @@ ("0.0" :> 0) @@ ("1.0" :> 1) @@ ("10.0" :> 10) @@ ("130.0" :> 130)

\* _int(el, attr, default) does not raise
IntOk(el, attr) == Has(el, attr) => el.attrs[attr] \in DOMAIN IntLiteral

\* _float(el, attr, default) does not raise
FloatOk(el, attr) == Has(el, attr) => el.attrs[attr] \in DOMAIN FloatLiteral

\* _int(el, attr, default), where IntOk(el, attr)
IntAttr(el, attr, default) == IF Has(el, attr) THEN IntLiteral[el.attrs[attr]] ELSE default

\* _float(el, attr, default), where FloatOk(el, attr)
FloatAttr(el, attr, default) == IF Has(el, attr) THEN FloatLiteral[el.attrs[attr]] ELSE default

IntError == Raise("ValueError", "invalid literal for int()")

FloatError == Raise("ValueError", "could not convert string to float")

\* ------------------------------------------------------------------------
\* models.py: Vector and the geometry records
\* ------------------------------------------------------------------------

Vector(x, y, z) == [x |-> x, y |-> y, z |-> z]

\* Vector(_float(el, ax), _float(el, ay), _float(el, az))
VectorFrom(el, ax, ay, az) == Vector(FloatAttr(el, ax, 0), FloatAttr(el, ay, 0), FloatAttr(el, az, 0))

\* _axis_from
AxisFrom(el) == Vector(FloatAttr(el, "NormalX", 0), FloatAttr(el, "NormalY", 0), FloatAttr(el, "NormalZ", 1))

\* _parse_construction
ParseConstruction(geom_el) ==
    IF HasChild(geom_el, "Construction")
    THEN Get(Find(geom_el, "Construction"), "value", "0") = "1"
    ELSE FALSE

\* The twelve type tags _parse_geometry_element matches, each with the nested
\* element its branch requires.
RequiredChild ==
    ("Part::GeomPoint" :> "GeomPoint") @@
    ("Part::GeomLine" :> "GeomLine") @@
    ("Part::GeomLineSegment" :> "LineSegment") @@
    ("Part::GeomCircle" :> "Circle") @@
    ("Part::GeomArcOfCircle" :> "ArcOfCircle") @@
    ("Part::GeomEllipse" :> "Ellipse") @@
    ("Part::GeomArcOfEllipse" :> "ArcOfEllipse") @@
    ("Part::GeomHyperbola" :> "Hyperbola") @@
    ("Part::GeomArcOfHyperbola" :> "ArcOfHyperbola") @@
    ("Part::GeomParabola" :> "Parabola") @@
    ("Part::GeomArcOfParabola" :> "ArcOfParabola") @@
    ("Part::GeomBSplineCurve" :> "BSplineCurve")

KnownGeometryTypes == DOMAIN RequiredChild

CenterAttrs == {"CenterX", "CenterY", "CenterZ"}

AxisAttrs == {"NormalX", "NormalY", "NormalZ"}

ArcAttrs == {"StartAngle", "EndAngle"}

\* The attributes a branch reads with _float from its nested element.
FloatAttrsRead(geom_type) ==
    CASE geom_type = "Part::GeomPoint" -> {"X", "Y", "Z"}
      [] geom_type = "Part::GeomLine" -> {"PosX", "PosY", "PosZ", "DirX", "DirY", "DirZ"}
      [] geom_type = "Part::GeomLineSegment" ->
            {"StartX", "StartY", "StartZ", "EndX", "EndY", "EndZ"}
      [] geom_type = "Part::GeomCircle" -> CenterAttrs \cup {"Radius", "AngleXU"} \cup AxisAttrs
      [] geom_type = "Part::GeomArcOfCircle" ->
            CenterAttrs \cup {"Radius", "AngleXU"} \cup AxisAttrs \cup ArcAttrs
      [] geom_type \in {"Part::GeomEllipse", "Part::GeomHyperbola"} ->
            CenterAttrs \cup {"MajorRadius", "MinorRadius", "AngleXU"} \cup AxisAttrs
      [] geom_type \in {"Part::GeomArcOfEllipse", "Part::GeomArcOfHyperbola"} ->
            CenterAttrs \cup {"MajorRadius", "MinorRadius", "AngleXU"} \cup AxisAttrs
                \cup ArcAttrs
      [] geom_type = "Part::GeomParabola" -> CenterAttrs \cup {"Focal", "AngleXU"} \cup AxisAttrs
      [] geom_type = "Part::GeomArcOfParabola" ->
            CenterAttrs \cup {"Focal", "AngleXU"} \cup AxisAttrs \cup ArcAttrs
      [] OTHER -> {}

Center(el) == VectorFrom(el, "CenterX", "CenterY", "CenterZ")

\* The record a branch other than the B-spline's builds, its numerals being well formed.
BuildGeometry(geom_type, el, construction) ==
    CASE geom_type = "Part::GeomPoint" ->
            [kind |-> "GeomPoint", X |-> FloatAttr(el, "X", 0), Y |-> FloatAttr(el, "Y", 0),
             Z |-> FloatAttr(el, "Z", 0), Construction |-> construction]
      [] geom_type = "Part::GeomLine" ->
            [kind |-> "GeomLine", Location |-> VectorFrom(el, "PosX", "PosY", "PosZ"),
             Direction |-> VectorFrom(el, "DirX", "DirY", "DirZ"),
             Construction |-> construction]
      [] geom_type = "Part::GeomLineSegment" ->
            [kind |-> "GeomLineSegment",
             StartPoint |-> VectorFrom(el, "StartX", "StartY", "StartZ"),
             EndPoint |-> VectorFrom(el, "EndX", "EndY", "EndZ"),
             Construction |-> construction]
      [] geom_type = "Part::GeomCircle" ->
            [kind |-> "GeomCircle", Center |-> Center(el), Radius |-> FloatAttr(el, "Radius", 0),
             AngleXU |-> FloatAttr(el, "AngleXU", 0), Axis |-> AxisFrom(el),
             Construction |-> construction]
      [] geom_type = "Part::GeomArcOfCircle" ->
            [kind |-> "GeomArcOfCircle", Center |-> Center(el),
             Radius |-> FloatAttr(el, "Radius", 0), AngleXU |-> FloatAttr(el, "AngleXU", 0),
             Axis |-> AxisFrom(el), StartAngle |-> FloatAttr(el, "StartAngle", 0),
             EndAngle |-> FloatAttr(el, "EndAngle", 0), Construction |-> construction]
      [] geom_type \in {"Part::GeomEllipse", "Part::GeomHyperbola"} ->
            [kind |-> IF geom_type = "Part::GeomEllipse" THEN "GeomEllipse" ELSE "GeomHyperbola",
             Center |-> Center(el), MajorRadius |-> FloatAttr(el, "MajorRadius", 0),
             MinorRadius |-> FloatAttr(el, "MinorRadius", 0),
             AngleXU |-> FloatAttr(el, "AngleXU", 0), Axis |-> AxisFrom(el),
             Construction |-> construction]
      [] geom_type \in {"Part::GeomArcOfEllipse", "Part::GeomArcOfHyperbola"} ->
            [kind |-> IF geom_type = "Part::GeomArcOfEllipse" THEN "GeomArcOfEllipse"
                      ELSE "GeomArcOfHyperbola",
             Center |-> Center(el), MajorRadius |-> FloatAttr(el, "MajorRadius", 0),
             MinorRadius |-> FloatAttr(el, "MinorRadius", 0),
             AngleXU |-> FloatAttr(el, "AngleXU", 0), Axis |-> AxisFrom(el),
             StartAngle |-> FloatAttr(el, "StartAngle", 0),
             EndAngle |-> FloatAttr(el, "EndAngle", 0), Construction |-> construction]
      [] geom_type = "Part::GeomParabola" ->
            [kind |-> "GeomParabola", Center |-> Center(el), Focal |-> FloatAttr(el, "Focal", 0),
             AngleXU |-> FloatAttr(el, "AngleXU", 0), Axis |-> AxisFrom(el),
             Construction |-> construction]
      [] geom_type = "Part::GeomArcOfParabola" ->
            [kind |-> "GeomArcOfParabola", Center |-> Center(el),
             Focal |-> FloatAttr(el, "Focal", 0), AngleXU |-> FloatAttr(el, "AngleXU", 0),
             Axis |-> AxisFrom(el), StartAngle |-> FloatAttr(el, "StartAngle", 0),
             EndAngle |-> FloatAttr(el, "EndAngle", 0), Construction |-> construction]

\* Mutant of the loop over the children of <BSplineCurve>: a pole is put at the
\* front of the poles collected so far.
RECURSIVE BSplineChildrenNewestFirst(_, _, _, _)
BSplineChildrenNewestFirst(kids, i, poles, knots) ==
    IF i > Len(kids) THEN Ok([Poles |-> poles, Knots |-> knots])
    ELSE LET child == kids[i] IN
         IF child.tag = "Pole"
         THEN IF \A a \in {"X", "Y", "Z", "Weight"} : FloatOk(child, a)
              THEN BSplineChildrenNewestFirst(kids, i + 1,
                       << [Point |-> VectorFrom(child, "X", "Y", "Z"),
                           Weight |-> FloatAttr(child, "Weight", 1)] >> \o poles,
                       knots)
              ELSE FloatError
         ELSE IF child.tag = "Knot"
         THEN IF ~FloatOk(child, "Value") THEN FloatError
              ELSE IF ~IntOk(child, "Mult") THEN IntError
              ELSE BSplineChildrenNewestFirst(kids, i + 1, poles,
                       Append(knots, [Value |-> FloatAttr(child, "Value", 0),
                                      Mult |-> IntAttr(child, "Mult", 1)]))
         ELSE BSplineChildrenNewestFirst(kids, i + 1, poles, knots)

\* The loop over the children of <BSplineCurve>, from child i on: the poles and
\* knots collected, or the first conversion error.
RECURSIVE BSplineChildren(_, _, _, _)
BSplineChildren(kids, i, poles, knots) ==
    IF i > Len(kids) THEN Ok([Poles |-> poles, Knots |-> knots])
    ELSE LET child == kids[i] IN
         IF child.tag = "Pole"
         THEN IF \A a \in {"X", "Y", "Z", "Weight"} : FloatOk(child, a)
              THEN BSplineChildren(kids, i + 1,
                       Append(poles, [Point |-> VectorFrom(child, "X", "Y", "Z"),
                                      Weight |-> FloatAttr(child, "Weight", 1)]),
                       knots)
              ELSE FloatError
         ELSE IF child.tag = "Knot"
         THEN IF ~FloatOk(child, "Value") THEN FloatError
              ELSE IF ~IntOk(child, "Mult") THEN IntError
              ELSE BSplineChildren(kids, i + 1, poles,
                       Append(knots, [Value |-> FloatAttr(child, "Value", 0),
                                      Mult |-> IntAttr(child, "Mult", 1)]))
         ELSE BSplineChildren(kids, i + 1, poles, knots)

\* The "Part::GeomBSplineCurve" branch.
ParseBSplineCurve(bs_el, construction) ==
    LET walked == BSplineChildren(bs_el.kids, 1, <<>>, <<>>) IN
    IF ~walked.ok THEN walked
    ELSE IF ~IntOk(bs_el, "Degree") THEN IntError
    ELSE Ok([kind |-> "GeomBSplineCurve", Degree |-> IntAttr(bs_el, "Degree", 0),
             IsPeriodic |-> Get(bs_el, "IsPeriodic", "0") = "1",
             Poles |-> walked.val.Poles, Knots |-> walked.val.Knots,
             Construction |-> construction])

\* [value] * n: a list repeated n times, empty when n is zero or negative
Repeat(value, n) == [j \in 1 .. n |-> value]

\* Mutant of GeomBSplineCurve.KnotSequence: every knot once, whatever its Mult.
RECURSIVE KnotSequenceOnce(_)
KnotSequenceOnce(curve) ==
    IF curve.Knots = <<>> THEN <<>>
    ELSE << Head(curve.Knots).Value >>
            \o KnotSequenceOnce([curve EXCEPT !.Knots = Tail(curve.Knots)])

\* GeomBSplineCurve.KnotSequence: seq.extend([k.Value] * k.Mult) for k in self.Knots
RECURSIVE KnotSequence(_)
KnotSequence(curve) ==
    IF curve.Knots = <<>> THEN <<>>
    ELSE Repeat(Head(curve.Knots).Value, Head(curve.Knots).Mult)
            \o KnotSequence([curve EXCEPT !.Knots = Tail(curve.Knots)])

\* Vector(): the zero vector
ZeroVector == Vector(0, 0, 0)

\* GeomBSplineCurve.StartPoint
BSplineStartPoint(curve) ==
    IF curve.Poles # <<>> THEN curve.Poles[1].Point ELSE ZeroVector

\* Mutant of GeomBSplineCurve.EndPoint: the first pole.
BSplineEndPointFirst(curve) ==
    IF curve.Poles # <<>> THEN curve.Poles[1].Point ELSE ZeroVector

\* GeomBSplineCurve.EndPoint
BSplineEndPoint(curve) ==
    IF curve.Poles # <<>> THEN curve.Poles[Len(curve.Poles)].Point ELSE ZeroVector

\* ------------------------------------------------------------------------
\* models.py: the derived points. The floats a property computes are modelled
\* as fixed-point numbers in thousandths, the fields of an object being whole.
\* ------------------------------------------------------------------------

\* A whole number in thousandths
Milli(x) == 1000 * x

\* The product of two numbers in thousandths
MilliMul(a, b) == (a * b) \div 1000

\* math.cos and math.sin of 0..6 radians, in thousandths
CosTable == << 540, -416, -990, -654, 284, 960 >>

SinTable == << 841, 909, 141, -757, -959, -279 >>

\* math.cos(angle), angle a whole number of radians within -6..6
Cos(angle) ==
    IF angle = 0 THEN 1000 ELSE IF angle > 0 THEN CosTable[angle] ELSE CosTable[-angle]

\* math.sin(angle)
Sin(angle) ==
    IF angle = 0 THEN 0 ELSE IF angle > 0 THEN SinTable[angle] ELSE -SinTable[-angle]

\* math.sqrt(v), v whole and not negative: the root in thousandths
Sqrt(v) == CHOOSE r \in 0 .. 1000 * v : r * r <= 1000000 * v /\ (r + 1) * (r + 1) > 1000000 * v

\* abs(v)
Abs(v) == IF v >= 0 THEN v ELSE -v

\* Mutant of _arc_point: the mirror is applied when normal_z is zero too.
ArcPointMirrorAtZero(center_x, center_y, center_z, radius, angle, angle_xu, normal_z) ==
    LET effective_angle == angle_xu + angle
        x == Milli(center_x) + radius * Cos(effective_angle)
        y == Milli(center_y)
                + radius * Sin(effective_angle) * (IF normal_z > 0 THEN 1 ELSE -1)
    IN  Vector(x, y, Milli(center_z))

\* _arc_point
ArcPoint(center_x, center_y, center_z, radius, angle, angle_xu, normal_z) ==
    LET effective_angle == angle_xu + angle
        x == Milli(center_x) + radius * Cos(effective_angle)
        y == Milli(center_y)
                + radius * Sin(effective_angle) * (IF normal_z >= 0 THEN 1 ELSE -1)
    IN  Vector(x, y, Milli(center_z))

\* GeomArcOfCircle.StartPoint
ArcStartPoint(arc) ==
    ArcPoint(arc.Center.x, arc.Center.y, arc.Center.z, arc.Radius, arc.StartAngle,
             arc.AngleXU, arc.Axis.z)

\* GeomArcOfCircle.EndPoint
ArcEndPoint(arc) ==
    ArcPoint(arc.Center.x, arc.Center.y, arc.Center.z, arc.Radius, arc.EndAngle,
             arc.AngleXU, arc.Axis.z)

\* Mutant of GeomEllipse.Focal: the difference of the squares without abs,
\* clamped at zero.
FocalNoAbs(ellipse) ==
    LET d == ellipse.MajorRadius * ellipse.MajorRadius
                - ellipse.MinorRadius * ellipse.MinorRadius
    IN  Sqrt(IF d >= 0 THEN d ELSE 0)

\* GeomEllipse.Focal
Focal(ellipse) ==
    Sqrt(Abs(ellipse.MajorRadius * ellipse.MajorRadius
                - ellipse.MinorRadius * ellipse.MinorRadius))

\* GeomEllipse.Focus1
Focus1(ellipse) ==
    LET cos_xu == Cos(ellipse.AngleXU)
        sin_xu == Sin(ellipse.AngleXU)
        f == Focal(ellipse)
    IN  Vector(Milli(ellipse.Center.x) + MilliMul(f, cos_xu),
               Milli(ellipse.Center.y) + MilliMul(f, sin_xu),
               Milli(ellipse.Center.z))

\* GeomEllipse.Focus2
Focus2(ellipse) ==
    LET cos_xu == Cos(ellipse.AngleXU)
        sin_xu == Sin(ellipse.AngleXU)
        f == Focal(ellipse)
    IN  Vector(Milli(ellipse.Center.x) - MilliMul(f, cos_xu),
               Milli(ellipse.Center.y) - MilliMul(f, sin_xu),
               Milli(ellipse.Center.z))

UnknownGeometryType == Raise("ValueError", "Unknown geometry type")

MissingChildElement == Raise("ValueError", "Missing child element")

\* Mutant of _parse_geometry_element: the default case gives a point instead of raising.
ParseGeometryElementLenient(geom_el) ==
    LET geom_type == Get(geom_el, "type", "")
        construction == ParseConstruction(geom_el)
    IN  IF geom_type \notin KnownGeometryTypes
        THEN Ok(BuildGeometry("Part::GeomPoint", Leaf("GeomPoint", NoAttrs), construction))
        ELSE IF ~HasChild(geom_el, RequiredChild[geom_type]) THEN MissingChildElement
        ELSE LET el == Find(geom_el, RequiredChild[geom_type]) IN
             IF geom_type = "Part::GeomBSplineCurve" THEN ParseBSplineCurve(el, construction)
             ELSE IF \E a \in FloatAttrsRead(geom_type) : ~FloatOk(el, a) THEN FloatError
             ELSE Ok(BuildGeometry(geom_type, el, construction))

\* Mutant of _parse_geometry_element: _require raises the message of the default case.
ParseGeometryElementOneMessage(geom_el) ==
    LET geom_type == Get(geom_el, "type", "")
        construction == ParseConstruction(geom_el)
    IN  IF geom_type \notin KnownGeometryTypes THEN UnknownGeometryType
        ELSE IF ~HasChild(geom_el, RequiredChild[geom_type]) THEN UnknownGeometryType
        ELSE LET el == Find(geom_el, RequiredChild[geom_type]) IN
             IF geom_type = "Part::GeomBSplineCurve" THEN ParseBSplineCurve(el, construction)
             ELSE IF \E a \in FloatAttrsRead(geom_type) : ~FloatOk(el, a) THEN FloatError
             ELSE Ok(BuildGeometry(geom_type, el, construction))

\* _parse_geometry_element: one <Geometry type="..."> element
ParseGeometryElement(geom_el) ==
    LET geom_type == Get(geom_el, "type", "")
        construction == ParseConstruction(geom_el)
    IN  IF geom_type \notin KnownGeometryTypes THEN UnknownGeometryType
        ELSE IF ~HasChild(geom_el, RequiredChild[geom_type]) THEN MissingChildElement
        ELSE LET el == Find(geom_el, RequiredChild[geom_type]) IN
             IF geom_type = "Part::GeomBSplineCurve" THEN ParseBSplineCurve(el, construction)
             ELSE IF \E a \in FloatAttrsRead(geom_type) : ~FloatOk(el, a) THEN FloatError
             ELSE Ok(BuildGeometry(geom_type, el, construction))

\* ------------------------------------------------------------------------
\* enums.py and the constraint decoder
\* ------------------------------------------------------------------------

\* CONSTRAINT_TYPE_NAMES, indexed by type code + 1 (ConstraintType 0..19)
ConstraintTypeNames ==
    << "None", "Coincident", "Horizontal", "Vertical", "Parallel", "Tangent",
       "Distance", "DistanceX", "DistanceY", "Angle", "Perpendicular", "Radius",
       "Equal", "PointOnObject", "Symmetric", "InternalAlignment", "SnellsLaw",
       "Block", "Diameter", "Weight" >>

\* Mutant of ConstraintType(type_int): code 0 (NONE) is not a member.
IsConstraintTypeNoNone(type_int) == type_int \in 1 .. (Len(ConstraintTypeNames) - 1)

\* ConstraintType(type_int) does not raise
IsConstraintType(type_int) == type_int \in 0 .. (Len(ConstraintTypeNames) - 1)

\* PointPos, indexed by value + 1
PointPosNames == << "none", "start", "end", "mid" >>

\* PointPos(value) does not raise
IsPointPos(value) == value \in 0 .. (Len(PointPosNames) - 1)

UnknownConstraintType == Raise("AssertionError", "Unknown constraint type")

PointPosError == Raise("ValueError", "is not a valid PointPos")

\* Mutant of PointPos(_int(c_el, attr)): a value outside the enumeration gives none.
PointPosCheckLenient(c_el, attr) ==
    IF ~IntOk(c_el, attr) THEN IntError
    ELSE IF ~IsPointPos(IntAttr(c_el, attr, 0)) THEN Ok(PointPosNames[1])
    ELSE Ok(PointPosNames[IntAttr(c_el, attr, 0) + 1])

\* PointPos(_int(c_el, attr)): the first exception of the conversion, if any
PointPosCheck(c_el, attr) ==
    IF ~IntOk(c_el, attr) THEN IntError
    ELSE IF ~IsPointPos(IntAttr(c_el, attr, 0)) THEN PointPosError
    ELSE Ok(PointPosNames[IntAttr(c_el, attr, 0) + 1])

\* The arguments of Constraint(...) in the order Python evaluates them: the
\* first one that raises, or Ok(TRUE).
RECURSIVE ConstraintArgs(_, _)
ConstraintArgs(c_el, checks) ==
    IF checks = <<>> THEN Ok(TRUE)
    ELSE LET c == Head(checks)
             r == CASE c[1] = "float" -> IF FloatOk(c_el, c[2]) THEN Ok(TRUE) ELSE FloatError
                    [] c[1] = "int" -> IF IntOk(c_el, c[2]) THEN Ok(TRUE) ELSE IntError
                    [] c[1] = "pos" -> PointPosCheck(c_el, c[2])
         IN  IF r.ok THEN ConstraintArgs(c_el, Tail(checks)) ELSE r

ConstraintArgOrder ==
    << <<"float", "Value">>, <<"int", "First">>, <<"pos", "FirstPos">>,
       <<"int", "Second">>, <<"pos", "SecondPos">>, <<"int", "Third">>,
       <<"pos", "ThirdPos">>, <<"float", "LabelDistance">>,
       <<"float", "LabelPosition">> >>

\* Mutant of the loop body of _parse_constraints: LabelDistance defaults to 0.
ParseConstraintElementZeroLabel(c_el) ==
    IF ~IntOk(c_el, "Type") THEN IntError
    ELSE LET type_int == IntAttr(c_el, "Type", 0) IN
         IF ~IsConstraintType(type_int) THEN UnknownConstraintType
         ELSE LET args == ConstraintArgs(c_el, ConstraintArgOrder) IN
              IF ~args.ok THEN args
              ELSE Ok([Type |-> ConstraintTypeNames[type_int + 1],
                       Name |-> Get(c_el, "Name", ""),
                       Value |-> FloatAttr(c_el, "Value", 0),
                       First |-> IntAttr(c_el, "First", -2000),
                       FirstPos |-> PointPosCheck(c_el, "FirstPos").val,
                       Second |-> IntAttr(c_el, "Second", -2000),
                       SecondPos |-> PointPosCheck(c_el, "SecondPos").val,
                       Third |-> IntAttr(c_el, "Third", -2000),
                       ThirdPos |-> PointPosCheck(c_el, "ThirdPos").val,
                       Driving |-> Get(c_el, "IsDriving", "1") = "1",
                       InVirtualSpace |-> Get(c_el, "IsInVirtualSpace", "0") = "1",
                       IsActive |-> Get(c_el, "IsActive", "1") = "1",
                       LabelDistance |-> FloatAttr(c_el, "LabelDistance", 0),
                       LabelPosition |-> FloatAttr(c_el, "LabelPosition", 0)])

\* The body of the loop of _parse_constraints: one <Constrain> element
ParseConstraintElement(c_el) ==
    IF ~IntOk(c_el, "Type") THEN IntError
    ELSE LET type_int == IntAttr(c_el, "Type", 0) IN
         IF ~IsConstraintType(type_int) THEN UnknownConstraintType
         ELSE LET args == ConstraintArgs(c_el, ConstraintArgOrder) IN
              IF ~args.ok THEN args
              ELSE Ok([Type |-> ConstraintTypeNames[type_int + 1],
                       Name |-> Get(c_el, "Name", ""),
                       Value |-> FloatAttr(c_el, "Value", 0),
                       First |-> IntAttr(c_el, "First", -2000),
                       FirstPos |-> PointPosCheck(c_el, "FirstPos").val,
                       Second |-> IntAttr(c_el, "Second", -2000),
                       SecondPos |-> PointPosCheck(c_el, "SecondPos").val,
                       Third |-> IntAttr(c_el, "Third", -2000),
                       ThirdPos |-> PointPosCheck(c_el, "ThirdPos").val,
                       Driving |-> Get(c_el, "IsDriving", "1") = "1",
                       InVirtualSpace |-> Get(c_el, "IsInVirtualSpace", "0") = "1",
                       IsActive |-> Get(c_el, "IsActive", "1") = "1",
                       LabelDistance |-> FloatAttr(c_el, "LabelDistance", 10),
                       LabelPosition |-> FloatAttr(c_el, "LabelPosition", 0)])

\* ------------------------------------------------------------------------
\* The Sketch record and the sketch assembler
\* ------------------------------------------------------------------------

\* The fields of the dataclass Sketch, with their defaults.
SketchDefaults ==
    [Name |-> "", Label |-> "", Geometry |-> <<>>, Constraints |-> <<>>,
     ExternalGeo |-> <<>>, FullyConstrained |-> FALSE]

UnexpectedKeyword == Raise("TypeError", "unexpected keyword argument")

\* Sketch(**kwargs): the generated __init__ takes the fields of the dataclass as
\* keywords, and raises TypeError on any other keyword.
SketchInit(kwargs) ==
    IF DOMAIN kwargs \subseteq DOMAIN SketchDefaults
    THEN Ok([f \in DOMAIN SketchDefaults |->
                IF f \in DOMAIN kwargs THEN kwargs[f] ELSE SketchDefaults[f]])
    ELSE UnexpectedKeyword

\* _find_property(properties_el, name) is not None
HasProperty(props_el, name) ==
    \E i \in 1 .. Len(props_el.kids) :
        props_el.kids[i].tag = "Property" /\ Has(props_el.kids[i], "name")
            /\ props_el.kids[i].attrs["name"] = name

\* _find_property(properties_el, name), where HasProperty: the first match
FindProperty(props_el, name) ==
    LET matches == SelectSeq(props_el.kids,
                       LAMBDA p : p.tag = "Property" /\ Has(p, "name")
                                    /\ p.attrs["name"] = name)
    IN  matches[1]

\* The <Geometry> elements _parse_geometry_list and _parse_geometry_dict walk for
\* the property called name: none when the property or its <GeometryList> is absent.
GeometryElements(props_el, name) ==
    IF ~HasProperty(props_el, name) THEN <<>>
    ELSE IF ~HasChild(FindProperty(props_el, name), "GeometryList") THEN <<>>
    ELSE FindAll(Find(FindProperty(props_el, name), "GeometryList"), "Geometry")

\* The <Constrain> elements _parse_constraints walks.
ConstraintElements(props_el) ==
    IF ~HasProperty(props_el, "Constraints") THEN <<>>
    ELSE IF ~HasChild(FindProperty(props_el, "Constraints"), "ConstraintList") THEN <<>>
    ELSE FindAll(Find(FindProperty(props_el, "Constraints"), "ConstraintList"), "Constrain")

\* The label _parse_sketch_object resolves.
ResolveLabel(props_el, obj_name) ==
    IF ~HasProperty(props_el, "Label") THEN obj_name
    ELSE IF ~HasChild(FindProperty(props_el, "Label"), "String") THEN obj_name
    ELSE Get(Find(FindProperty(props_el, "Label"), "String"), "value", obj_name)

\* The fully_constrained flag _parse_sketch_object resolves.
ResolveFullyConstrained(props_el) ==
    IF ~HasProperty(props_el, "FullyConstrained") THEN FALSE
    ELSE IF ~HasChild(FindProperty(props_el, "FullyConstrained"), "Bool") THEN FALSE
    ELSE Get(Find(FindProperty(props_el, "FullyConstrained"), "Bool"), "value", "false") = "true"

\* The Sketch(...) call that ends _parse_sketch_object.
AssembleSketch(obj_name, lbl, geo, cons, ext, ext_dict, fc) ==
    SketchInit([Name |-> obj_name, Label |-> lbl, Geometry |-> geo, Constraints |-> cons,
                ExternalGeo |-> ext, ExternalGeoDict |-> ext_dict,
                FullyConstrained |-> fc])

\* Mutant of _sketch_object_names: the declared type is not looked at.
SketchObjectNamesAnyType(r) ==
    IF ~HasChild(r, "Objects") THEN {}
    ELSE LET objs == FindAll(Find(r, "Objects"), "Object") IN
         { objs[i].attrs["name"] :
             i \in { j \in 1 .. Len(objs) :
                       Has(objs[j], "name") /\ objs[j].attrs["name"] # "" } }

\* _sketch_object_names
SketchObjectNames(r) ==
    IF ~HasChild(r, "Objects") THEN {}
    ELSE LET objs == FindAll(Find(r, "Objects"), "Object") IN
         { objs[i].attrs["name"] :
             i \in { j \in 1 .. Len(objs) :
                       /\ Get(objs[j], "type", "") = "Sketcher::SketchObject"
                       /\ Has(objs[j], "name")
                       /\ objs[j].attrs["name"] # "" } }

\* ------------------------------------------------------------------------
\* Input documents
\* ------------------------------------------------------------------------

MaxBlocks == 2

MaxGeometry == 2

MaxExternal == 2

MaxConstraints == 2

\* The sequences over S of length at most n
SeqsUpTo(S, n) == UNION { [1 .. m -> S] : m \in 0 .. n }

Property(name, kids) == El("Property", "name" :> name, kids)

ConstructionFlag == Leaf("Construction", "value" :> "1")

\* <Geometry> elements, as FreeCAD writes them and as it does not
LineSegmentEl ==
    El("Geometry", "type" :> "Part::GeomLineSegment",
       << Leaf("LineSegment", ("StartX" :> "0") @@ ("EndX" :> "1") @@ ("EndY" :> "2")),
          Leaf("Construction", "value" :> "0") >>)

ArcOfCircleEl ==
    El("Geometry", "type" :> "Part::GeomArcOfCircle",
       << Leaf("ArcOfCircle", ("CenterX" :> "3") @@ ("Radius" :> "2") @@ ("NormalZ" :> "-1")
                                @@ ("EndAngle" :> "1.0")) >>)

BSplineEl ==
    El("Geometry", "type" :> "Part::GeomBSplineCurve",
       << El("BSplineCurve", ("Degree" :> "3") @@ ("IsPeriodic" :> "1"),
             << Leaf("Pole", ("X" :> "1") @@ ("Weight" :> "2")),
                Leaf("Knot", ("Value" :> "0") @@ ("Mult" :> "3")),
                Leaf("Pole", "Y" :> "4"),
                Leaf("Knot", "Value" :> "1.0") >>) >>)

BogusEl == El("Geometry", "type" :> "Part::Bogus", << Leaf("Bogus", "X" :> "1") >>)

UntypedEl == El("Geometry", NoAttrs, << Leaf("LineSegment", "EndX" :> "1") >>)

ChildlessCircleEl == El("Geometry", "type" :> "Part::GeomCircle", << ConstructionFlag >>)

BadNumberEl ==
    El("Geometry", "type" :> "Part::GeomLineSegment",
       << Leaf("LineSegment", ("StartX" :> "abc") @@ ("EndX" :> "1")) >>)

GeometryEls ==
    { LineSegmentEl, ArcOfCircleEl, BSplineEl, BogusEl, UntypedEl, ChildlessCircleEl,
      BadNumberEl }

\* External geometry: the axes FreeCAD stores under ids -1 and -2, and variants
AxisEl(attrs, end) ==
    El("Geometry", attrs, << Leaf("LineSegment", end :> "1"), ConstructionFlag >>)

HAxisEl == AxisEl(("type" :> "Part::GeomLineSegment") @@ ("id" :> "-1"), "EndX")

VAxisEl == AxisEl(("type" :> "Part::GeomLineSegment") @@ ("id" :> "-2"), "EndY")

ExternalEls ==
    { HAxisEl, VAxisEl,
      AxisEl("type" :> "Part::GeomLineSegment", "EndZ"),
      AxisEl(("type" :> "Part::GeomLineSegment") @@ ("id" :> "-01"), "EndZ"),
      AxisEl(("type" :> "Part::GeomLineSegment") @@ ("id" :> "abc"), "EndX"),
      El("Geometry", ("type" :> "Part::Bogus") @@ ("id" :> "-3"), <<>>) }

\* <Constrain> elements
CoincidentEl ==
    Leaf("Constrain", ("Name" :> "") @@ ("Type" :> "1") @@ ("Value" :> "0")
                        @@ ("First" :> "0") @@ ("FirstPos" :> "1") @@ ("Second" :> "-1")
                        @@ ("SecondPos" :> "1") @@ ("Third" :> "-2000")
                        @@ ("ThirdPos" :> "0") @@ ("LabelDistance" :> "10.0")
                        @@ ("LabelPosition" :> "0") @@ ("IsDriving" :> "1")
                        @@ ("IsInVirtualSpace" :> "0") @@ ("IsActive" :> "1"))

ConstraintEls ==
    { CoincidentEl,
      Leaf("Constrain", ("Type" :> "13") @@ ("First" :> "1") @@ ("FirstPos" :> "2")
                          @@ ("Second" :> "0") @@ ("IsDriving" :> "0")),
      Leaf("Constrain", NoAttrs),
      Leaf("Constrain", "Type" :> "0"),
      Leaf("Constrain", ("Type" :> "19") @@ ("Value" :> "130.0")),
      Leaf("Constrain", ("Type" :> "20") @@ ("First" :> "0")),
      Leaf("Constrain", "Type" :> "-1"),
      Leaf("Constrain", ("Type" :> "20") @@ ("FirstPos" :> "4")),
      Leaf("Constrain", ("Type" :> "1") @@ ("First" :> "0") @@ ("FirstPos" :> "4")),
      Leaf("Constrain", ("Type" :> "1") @@ ("SecondPos" :> "-1")),
      Leaf("Constrain", ("Type" :> "2") @@ ("Value" :> "abc")),
      Leaf("Constrain", "Type" :> "abc") }

\* The ways a property is stored
LabelProperties ==
    { <<>>, << Property("Label", <<>>) >>,
      << Property("Label", << Leaf("String", NoAttrs) >>) >>,
      << Property("Label", << Leaf("String", "value" :> "My Sketch") >>) >> }

ListProperties(name, list, els) ==
    { <<>>, << Property(name, <<>>) >> }
        \cup { << Property(name, << El(list, NoAttrs, items) >>) >> : items \in els }

GeometryProperties ==
    ListProperties("Geometry", "GeometryList", SeqsUpTo(GeometryEls, MaxGeometry))

ExternalGeoProperties ==
    ListProperties("ExternalGeo", "GeometryList",
                   SeqsUpTo(ExternalEls, MaxExternal))

ConstraintsProperties ==
    ListProperties("Constraints", "ConstraintList",
                   SeqsUpTo(ConstraintEls, MaxConstraints))

FullyConstrainedProperties ==
    { <<>>, << Property("FullyConstrained", <<>>) >> }
        \cup { << Property("FullyConstrained", << Leaf("Bool", a) >>) >> :
                 a \in { NoAttrs, "value" :> "true", "value" :> "false" } }

TypicalLabel == << Property("Label", << Leaf("String", "value" :> "My Sketch") >>) >>

TypicalGeometry ==
    << Property("Geometry",
          << El("GeometryList", NoAttrs, << LineSegmentEl, ArcOfCircleEl >>) >>) >>

TypicalExternalGeo ==
    << Property("ExternalGeo", << El("GeometryList", NoAttrs, << HAxisEl, VAxisEl >>) >>) >>

TypicalConstraints ==
    << Property("Constraints", << El("ConstraintList", NoAttrs, << CoincidentEl >>) >>) >>

TypicalFullyConstrained ==
    << Property("FullyConstrained", << Leaf("Bool", "value" :> "false") >>) >>

Properties(lbl, geo, ext, cons, fc) == El("Properties", NoAttrs, lbl \o geo \o ext \o cons \o fc)

\* Property lists that differ from a typical sketch in one property
PropertyLists ==
    { Properties(l, TypicalGeometry, TypicalExternalGeo, TypicalConstraints,
                 TypicalFullyConstrained) : l \in LabelProperties }
    \cup { Properties(TypicalLabel, g, TypicalExternalGeo, TypicalConstraints,
                      TypicalFullyConstrained) : g \in GeometryProperties }
    \cup { Properties(TypicalLabel, TypicalGeometry, e, TypicalConstraints,
                      TypicalFullyConstrained) : e \in ExternalGeoProperties }
    \cup { Properties(TypicalLabel, TypicalGeometry, TypicalExternalGeo, c,
                      TypicalFullyConstrained) : c \in ConstraintsProperties }
    \cup { Properties(TypicalLabel, TypicalGeometry, TypicalExternalGeo,
                      TypicalConstraints, f) : f \in FullyConstrainedProperties }

SketchEntry(name) ==
    Leaf("Object", ("type" :> "Sketcher::SketchObject") @@ ("name" :> name))

FeatureEntry(name) == Leaf("Object", ("type" :> "Part::Feature") @@ ("name" :> name))

\* The object tables: the children of <Objects>
ObjectTables ==
    { <<>>, << SketchEntry("Sketch") >>,
      << SketchEntry("Sketch"), SketchEntry("Sketch001") >>,
      << SketchEntry("Sketch"), FeatureEntry("Sketch001") >>,
      << FeatureEntry("Sketch") >>,
      << Leaf("Object", "type" :> "Sketcher::SketchObject"), SketchEntry("") >>,
      << SketchEntry(""), SketchEntry("Sketch"),
         Leaf("Object", "type" :> "Sketcher::SketchObject") >> }

ObjectData(name, kids) == El("Object", "name" :> name, kids)

BogusProperties ==
    El("Properties", NoAttrs,
       << Property("Geometry", << El("GeometryList", NoAttrs, << BogusEl >>) >>) >>)

BadConstraintProperties ==
    El("Properties", NoAttrs,
       << Property("Constraints",
             << El("ConstraintList", NoAttrs, << Leaf("Constrain", "Type" :> "20") >>) >>) >>)

ChildlessGeometryProperties ==
    El("Properties", NoAttrs,
       << Property("Geometry", << El("GeometryList", NoAttrs, << ChildlessCircleEl >>) >>) >>)

\* Object-data blocks for the scan: without a property list, with an empty one,
\* with one that holds a hard error
ScanBlocks ==
    { ObjectData(n, kids) :
        n \in { "Sketch", "Sketch001" },
        kids \in { <<>>, << El("Properties", NoAttrs, <<>>) >>, << BogusProperties >>,
                   << ChildlessGeometryProperties >>, << BadConstraintProperties >> } }
    \cup { El("Object", NoAttrs, <<>>) }

Document(objects, object_data) == El("Document", "SchemaVersion" :> "4", objects \o object_data)

\* Documents with several objects and blocks
ScanDocuments ==
    { Document(objects, object_data) :
        objects \in { <<>> } \cup { << El("Objects", NoAttrs, t) >> : t \in ObjectTables },
        object_data \in { <<>> } \cup { << El("ObjectData", NoAttrs, b) >> :
                                          b \in SeqsUpTo(ScanBlocks, MaxBlocks) } }

\* Documents with one sketch object and one block
SketchDocuments ==
    { Document(<< El("Objects", NoAttrs, << SketchEntry("Sketch") >>) >>,
               << El("ObjectData", NoAttrs, << ObjectData("Sketch", << p >>) >>) >>) :
        p \in PropertyLists }

\* The children of a <BSplineCurve>: poles with and without a weight, knots with
\* and without a multiplicity (a multiplicity FreeCAD never writes among them),
\* and an element that is neither
BSplineKids ==
    { Leaf("Pole", ("X" :> "1") @@ ("Weight" :> "2")),
      Leaf("Pole", "Y" :> "4"),
      Leaf("Knot", ("Value" :> "0.0") @@ ("Mult" :> "3")),
      Leaf("Knot", ("Value" :> "1.0") @@ ("Mult" :> "3")),
      Leaf("Knot", "Value" :> "1.0"),
      Leaf("Knot", ("Value" :> "2") @@ ("Mult" :> "0")),
      Leaf("Knot", ("Value" :> "2") @@ ("Mult" :> "-1")),
      Leaf("Extension", "Value" :> "3") }

MaxChildren == 3

BSplineEls ==
    { El("Geometry", "type" :> "Part::GeomBSplineCurve", << El("BSplineCurve", a, kids) >>) :
        a \in { NoAttrs, ("Degree" :> "3") @@ ("IsPeriodic" :> "1") },
        kids \in SeqsUpTo(BSplineKids, MaxChildren) }

\* A document with one sketch object whose only property is a Geometry list of
\* the single element geom_el
CurveDocument(geom_el) ==
    Document(<< El("Objects", NoAttrs, << SketchEntry("Sketch") >>) >>,
             << El("ObjectData", NoAttrs,
                   << ObjectData("Sketch",
                         << Properties(<<>>,
                               << Property("Geometry",
                                     << El("GeometryList", NoAttrs, << geom_el >>) >>) >>,
                               <<>>, <<>>, <<>>) >>) >>) >>)

\* Documents with one curve
CurveDocuments == { CurveDocument(g) : g \in BSplineEls }

Documents == ScanDocuments \cup SketchDocuments \cup CurveDocuments

EmptyDocument ==
    Document(<< El("Objects", "Count" :> "0", <<>>) >>,
             << El("ObjectData", "Count" :> "0", <<>>) >>)

\* An .FCStd archive holding document d
Archive(d) == ("Document.xml" :> d) @@ ("GuiDocument.xml" :> EmptyDocument)

\* An archive without a Document.xml entry
ForeignArchive == "GuiDocument.xml" :> EmptyDocument

\* ------------------------------------------------------------------------
\* The reader as a state machine
\* ------------------------------------------------------------------------

VARIABLES
    xml_file,           \* the Document.xml given to read_sketches_from_xml
    fcstd,              \* the archive given to read_sketches: entry name -> document
    path,               \* the entry point of the call in progress or of the last one
    pc,                 \* where the call in progress stands
    sketch_names,       \* read_sketches_from_xml: the names of the sketch objects
    sketches,           \* read_sketches_from_xml: the mapping built so far
    idx,                \* read_sketches_from_xml: position in object_data.findall("Object")
    label,              \* _parse_sketch_object: label
    geometry,           \* _parse_sketch_object: geometry
    external_geo,       \* _parse_sketch_object: external_geo
    external_geo_dict,  \* _parse_sketch_object: external_geo_dict
    constraints,        \* _parse_sketch_object: constraints
    k,                  \* position in the list being decoded
    decoded,            \* the element or block decoded last with its outcome, <<>> if none
    ret,                \* per entry point, what the call gave its caller
    obj,                \* a geometry object in the hands of a consumer, if any
    derived,            \* the properties the consumer read from obj, <<>> if none
    held                \* per entry point, the returned mapping once its consumer wrote to it

vars ==
    << xml_file, fcstd, path, pc, sketch_names, sketches, idx, label, geometry,
       external_geo, external_geo_dict, constraints, k, decoded, ret, obj, derived,
       held >>

inputs == << xml_file, fcstd >>

consumer == << obj, derived, held >>

locals == << label, geometry, external_geo, external_geo_dict, constraints, k >>

reader ==
    << xml_file, fcstd, path, pc, sketch_names, sketches, idx, locals, decoded, ret >>

EmptyDict == [n \in {} |-> 0]

\* The consumer holds no geometry object
NoObject == [kind |-> "None"]

Pending == [status |-> "pending"]

Returned(mapping) == [status |-> "returned", value |-> mapping]

Raised(err) == [status |-> "raised", error |-> [cls |-> err.cls, msg |-> err.msg]]

EntryPoints == { "xml", "fcstd" }

\* Mutant of the entry read_sketches opens: the other document of the archive.
GuiDocumentEntry == "GuiDocument.xml"

\* read_sketches opens this entry of the archive
DocumentEntry == "Document.xml"

\* The root element of the tree the call in progress parses
Root == IF path = "xml" THEN xml_file ELSE fcstd[DocumentEntry]

\* object_data.findall("Object")
Blocks(r) == FindAll(Find(r, "ObjectData"), "Object")

\* dict[key] = value
Store(dict, key, value) == (key :> value) @@ dict

Init ==
    /\ \E d \in Documents : xml_file = d /\ fcstd \in { Archive(d), ForeignArchive }
    /\ path = "xml"
    /\ pc = "idle"
    /\ sketch_names = {}
    /\ sketches = EmptyDict
    /\ idx = 0
    /\ label = ""
    /\ geometry = <<>>
    /\ external_geo = <<>>
    /\ external_geo_dict = EmptyDict
    /\ constraints = <<>>
    /\ k = 0
    /\ decoded = <<>>
    /\ ret = [p \in EntryPoints |-> Pending]
    /\ obj = NoObject
    /\ derived = <<>>
    /\ held = [p \in EntryPoints |-> <<>>]

\* Mutant of the propagation: an exception is caught and the sketches decoded so
\* far are returned.
FinishPartial(outcome) ==
    /\ ret' = [ret EXCEPT ![path] =
                  IF outcome.status = "raised" THEN Returned(sketches) ELSE outcome]
    /\ path' = path
    /\ pc' = "idle"

\* The call in progress ends, giving outcome to its caller.
Finish(outcome) ==
    /\ ret' = [ret EXCEPT ![path] = outcome]
    /\ path' = path
    /\ pc' = "idle"

\* Mutant of read_sketches_from_xml: the mapping is one shared dict, cleared at
\* the start of every call, so that a mapping returned earlier loses its entries.
ScanShared(p, r) ==
    LET cleared == [q \in EntryPoints |->
                       IF ret[q].status = "returned" THEN Returned(EmptyDict) ELSE ret[q]]
    IN  /\ sketch_names' = SketchObjectNames(r)
        /\ sketches' = EmptyDict
        /\ idx' = 1
        /\ label' = ""
        /\ geometry' = <<>>
        /\ external_geo' = <<>>
        /\ external_geo_dict' = EmptyDict
        /\ constraints' = <<>>
        /\ k' = 0
        /\ decoded' = <<>>
        /\ path' = p
        /\ IF SketchObjectNames(r) = {} \/ ~HasChild(r, "ObjectData")
           THEN /\ ret' = [cleared EXCEPT ![p] = Returned(EmptyDict)]
                /\ pc' = "idle"
           ELSE /\ ret' = cleared
                /\ pc' = "loop"

\* read_sketches_from_xml up to its loop, on root r for entry point p
Scan(p, r) ==
    /\ sketch_names' = SketchObjectNames(r)
    /\ sketches' = EmptyDict
    /\ idx' = 1
    /\ label' = ""
    /\ geometry' = <<>>
    /\ external_geo' = <<>>
    /\ external_geo_dict' = EmptyDict
    /\ constraints' = <<>>
    /\ k' = 0
    /\ decoded' = <<>>
    /\ path' = p
    /\ IF SketchObjectNames(r) = {} \/ ~HasChild(r, "ObjectData")
       THEN /\ ret' = [ret EXCEPT ![p] = Returned(EmptyDict)]
            /\ pc' = "idle"
       ELSE /\ ret' = ret
            /\ pc' = "loop"

\* A caller calls read_sketches_from_xml(xml_file).
ReadSketchesFromXml ==
    /\ pc = "idle"
    /\ ret["xml"] = Pending
    /\ Scan("xml", xml_file)
    /\ UNCHANGED << inputs, consumer >>

\* A caller calls read_sketches(fcstd): zf.open raises KeyError when the archive
\* has no Document.xml, otherwise its stream goes to read_sketches_from_xml.
ReadSketches ==
    /\ pc = "idle"
    /\ ret["fcstd"] = Pending
    /\ IF DocumentEntry \in DOMAIN fcstd
       THEN Scan("fcstd", fcstd[DocumentEntry])
       ELSE /\ ret' = [ret EXCEPT !["fcstd"] =
                          Raised(Raise("KeyError", "no item named in the archive"))]
            /\ path' = "fcstd"
            /\ decoded' = <<>>
            /\ UNCHANGED << pc, sketch_names, sketches, idx, locals >>
    /\ UNCHANGED << inputs, consumer >>

\* Mutant of the return: every name of sketch_names gets an entry, an empty Sketch
\* when no block was decoded for it.
ReturnSketchesForAllNames ==
    /\ pc = "loop"
    /\ idx > Len(Blocks(Root))
    /\ Finish(Returned([n \in sketch_names \cup DOMAIN sketches |->
                          IF n \in DOMAIN sketches THEN sketches[n]
                          ELSE SketchInit([Name |-> n]).val]))
    /\ UNCHANGED << inputs, consumer, sketch_names, sketches, idx, locals, decoded >>

\* The loop of read_sketches_from_xml is over: return sketches.
ReturnSketches ==
    /\ pc = "loop"
    /\ idx > Len(Blocks(Root))
    /\ Finish(Returned(sketches))
    /\ UNCHANGED << inputs, consumer, sketch_names, sketches, idx, locals, decoded >>

\* Mutant of the loop of read_sketches_from_xml: a block is also passed over when
\* its name already has an entry.
SkipObjectOrDuplicate ==
    /\ pc = "loop"
    /\ idx <= Len(Blocks(Root))
    /\ \/ Get(Blocks(Root)[idx], "name", "") \notin sketch_names
       \/ Get(Blocks(Root)[idx], "name", "") \in DOMAIN sketches
    /\ idx' = idx + 1
    /\ UNCHANGED << inputs, consumer, path, pc, sketch_names, sketches, locals, decoded, ret >>

\* A block whose name is not in sketch_names is passed over.
SkipObject ==
    /\ pc = "loop"
    /\ idx <= Len(Blocks(Root))
    /\ Get(Blocks(Root)[idx], "name", "") \notin sketch_names
    /\ idx' = idx + 1
    /\ UNCHANGED << inputs, consumer, path, pc, sketch_names, sketches, locals, decoded, ret >>

\* _parse_sketch_object on a block of a sketch object, up to the geometry: a
\* block without <Properties> gives Sketch(Name=obj_name) at once.
EnterSketchObject ==
    /\ pc = "loop"
    /\ idx <= Len(Blocks(Root))
    /\ LET obj_el == Blocks(Root)[idx]
           name == Get(obj_el, "name", "")
       IN  /\ name \in sketch_names
           /\ IF ~HasChild(obj_el, "Properties")
              THEN LET made == SketchInit([Name |-> name]) IN
                   /\ decoded' = << [el |-> obj_el, res |-> made] >>
                   /\ IF made.ok
                      THEN /\ sketches' = Store(sketches, name, made.val)
                           /\ idx' = idx + 1
                           /\ UNCHANGED << path, pc, ret, locals >>
                      ELSE /\ Finish(Raised(made))
                           /\ UNCHANGED << sketches, idx, locals >>
              ELSE /\ label' = ResolveLabel(Find(obj_el, "Properties"), name)
                   /\ geometry' = <<>>
                   /\ external_geo' = <<>>
                   /\ external_geo_dict' = EmptyDict
                   /\ constraints' = <<>>
                   /\ k' = 1
                   /\ pc' = "geometry"
                   /\ UNCHANGED << path, ret, sketches, idx, decoded >>
    /\ UNCHANGED << inputs, consumer, sketch_names >>

\* <Properties> of the block _parse_sketch_object is working on
Props == Find(Blocks(Root)[idx], "Properties")

\* The elements of the list the assembler is decoding
Elements ==
    CASE pc = "geometry" -> GeometryElements(Props, "Geometry")
      [] pc \in { "external_geo", "external_geo_dict" } -> GeometryElements(Props, "ExternalGeo")
      [] pc = "constraints" -> ConstraintElements(Props)
      [] OTHER -> <<>>

\* One turn of the loop of _parse_geometry_list, for Geometry or ExternalGeo
DecodeGeometry ==
    /\ pc \in { "geometry", "external_geo" }
    /\ k <= Len(Elements)
    /\ LET res == ParseGeometryElement(Elements[k]) IN
       /\ decoded' = << [el |-> Elements[k], res |-> res] >>
       /\ IF res.ok
          THEN /\ IF pc = "geometry"
                  THEN geometry' = Append(geometry, res.val) /\ external_geo' = external_geo
                  ELSE external_geo' = Append(external_geo, res.val) /\ geometry' = geometry
               /\ k' = k + 1
               /\ UNCHANGED << path, pc, ret >>
          ELSE /\ Finish(Raised(res))
               /\ UNCHANGED << geometry, external_geo, k >>
    /\ UNCHANGED << inputs, consumer, sketch_names, sketches, idx, label, external_geo_dict,
                    constraints >>

\* One turn of the loop of _parse_geometry_dict: an element with an id is decoded
\* and stored under int(id)
DecodeDictEntry ==
    /\ pc = "external_geo_dict"
    /\ k <= Len(Elements)
    /\ LET geom_el == Elements[k] IN
       IF ~Has(geom_el, "id")
       THEN /\ k' = k + 1
            /\ UNCHANGED << path, pc, ret, external_geo_dict, decoded >>
       ELSE LET value == ParseGeometryElement(geom_el)
                res == IF value.ok /\ ~IntOk(geom_el, "id") THEN IntError ELSE value
            IN  /\ decoded' = << [el |-> geom_el, res |-> res] >>
                /\ IF res.ok
                   THEN /\ external_geo_dict' =
                              Store(external_geo_dict, IntAttr(geom_el, "id", 0), res.val)
                        /\ k' = k + 1
                        /\ UNCHANGED << path, pc, ret >>
                   ELSE /\ Finish(Raised(res))
                        /\ UNCHANGED << external_geo_dict, k >>
    /\ UNCHANGED << inputs, consumer, sketch_names, sketches, idx, label, geometry, external_geo,
                    constraints >>

\* One turn of the loop of _parse_constraints
DecodeConstraint ==
    /\ pc = "constraints"
    /\ k <= Len(Elements)
    /\ LET res == ParseConstraintElement(Elements[k]) IN
       /\ decoded' = << [el |-> Elements[k], res |-> res] >>
       /\ IF res.ok
          THEN /\ constraints' = Append(constraints, res.val)
               /\ k' = k + 1
               /\ UNCHANGED << path, pc, ret >>
          ELSE /\ Finish(Raised(res))
               /\ UNCHANGED << constraints, k >>
    /\ UNCHANGED << inputs, consumer, sketch_names, sketches, idx, label, geometry, external_geo,
                    external_geo_dict >>

\* A list is exhausted: _parse_sketch_object goes on to its next statement.
NextProperty ==
    /\ pc \in { "geometry", "external_geo", "external_geo_dict" }
    /\ k > Len(Elements)
    /\ pc' = CASE pc = "geometry" -> "external_geo"
               [] pc = "external_geo" -> "external_geo_dict"
               [] pc = "external_geo_dict" -> "constraints"
    /\ k' = 1
    /\ UNCHANGED << inputs, consumer, path, sketch_names, sketches, idx, label, geometry,
                    external_geo, external_geo_dict, constraints, decoded, ret >>

\* The end of _parse_sketch_object: the flag, then Sketch(...); the Sketch is
\* stored under its name and the loop of read_sketches_from_xml goes on.
Assemble ==
    /\ pc = "constraints"
    /\ k > Len(Elements)
    /\ LET name == Get(Blocks(Root)[idx], "name", "")
           made == AssembleSketch(name, label, geometry, constraints, external_geo,
                                  external_geo_dict, ResolveFullyConstrained(Props))
       IN  /\ decoded' = << [el |-> Blocks(Root)[idx], res |-> made] >>
           /\ IF made.ok
              THEN /\ sketches' = Store(sketches, name, made.val)
                   /\ idx' = idx + 1
                   /\ pc' = "loop"
                   /\ UNCHANGED << path, ret >>
              ELSE /\ Finish(Raised(made))
                   /\ UNCHANGED << sketches, idx >>
    /\ UNCHANGED << inputs, consumer, sketch_names, locals >>

\* The classes of models.py declared with frozen=True
FrozenClasses == { "Vector" }

\* object.field = value on an instance of class cls: the generated __setattr__ of
\* a frozen dataclass raises, any other instance takes the value
SetAttr(cls, object, field, value) ==
    IF cls \in FrozenClasses THEN Raise("FrozenInstanceError", "cannot assign to field")
    ELSE Ok([object EXCEPT ![field] = value])

\* The mapping entry point p returned, as its consumer finds it now
Observed(p) == IF held[p] = <<>> THEN ret[p].value ELSE held[p][1]

\* del dict[key]
Delete(dict, key) == [n \in DOMAIN dict \ { key } |-> dict[n]]

\* A consumer writes once to the mapping entry point p returned, changing it
\* from what it observes to mapping.
ConsumerWrites(p, mapping) ==
    /\ pc = "idle"
    /\ ret[p].status = "returned"
    /\ held[p] = <<>>
    /\ held' = [held EXCEPT ![p] = << mapping >>]
    /\ UNCHANGED << reader, obj, derived >>

\* A consumer assigns the Label of a returned Sketch.
AssignLabel ==
    \E p \in { q \in EntryPoints : ret[q].status = "returned" } :
    \E n \in DOMAIN Observed(p) :
        LET set == SetAttr("Sketch", Observed(p)[n], "Label", "Edited") IN
        /\ set.ok
        /\ ConsumerWrites(p, Store(Observed(p), n, set.val))

\* A consumer appends a geometry object to the Geometry list of a returned Sketch.
AppendGeometry ==
    \E p \in { q \in EntryPoints : ret[q].status = "returned" } :
    \E n \in DOMAIN Observed(p) :
        LET point == BuildGeometry("Part::GeomPoint", Leaf("GeomPoint", NoAttrs), FALSE) IN
        ConsumerWrites(p, Store(Observed(p), n,
                                [Observed(p)[n] EXCEPT !.Geometry = Append(@, point)]))

\* A consumer deletes an entry of a returned mapping.
DeleteEntry ==
    \E p \in { q \in EntryPoints : ret[q].status = "returned" } :
    \E n \in DOMAIN Observed(p) :
        ConsumerWrites(p, Delete(Observed(p), n))

Next ==
    \/ ReadSketchesFromXml
    \/ ReadSketches
    \/ ReturnSketches
    \/ SkipObject
    \/ EnterSketchObject
    \/ DecodeGeometry
    \/ DecodeDictEntry
    \/ DecodeConstraint
    \/ NextProperty
    \/ Assemble
    \/ AssignLabel
    \/ AppendGeometry
    \/ DeleteEntry

Spec == Init /\ [][Next]_vars

\* ------------------------------------------------------------------------
\* The derived properties of the geometry objects: a consumer holds an object,
\* built by the decoder or by the consumer, and reads its properties
\* ------------------------------------------------------------------------

MaxPoles == 2

MaxKnots == 2

\* BSplinePole objects
Poles ==
    { [Point |-> Vector(1, 0, 0), Weight |-> 1], [Point |-> Vector(0, 4, 0), Weight |-> 2],
      [Point |-> ZeroVector, Weight |-> 1] }

\* BSplineKnot objects, not all with the multiplicity of a valid spline
Knots ==
    { [Value |-> 0, Mult |-> 3], [Value |-> 1, Mult |-> 3], [Value |-> 1, Mult |-> 1],
      [Value |-> 2, Mult |-> 0], [Value |-> 2, Mult |-> -1] }

BSplineCurves ==
    { [kind |-> "GeomBSplineCurve", Degree |-> d, IsPeriodic |-> d = 3, Poles |-> ps,
       Knots |-> ks, Construction |-> FALSE] :
        d \in { 0, 3 }, ps \in SeqsUpTo(Poles, MaxPoles), ks \in SeqsUpTo(Knots, MaxKnots) }

\* The B-spline curves the decoder builds from BSplineEls
DecodedBSplineCurves ==
    { ParseGeometryElement(g).val : g \in { e \in BSplineEls : ParseGeometryElement(e).ok } }

ArcsOfCircle ==
    { [kind |-> "GeomArcOfCircle", Center |-> c, Radius |-> r, AngleXU |-> xu,
       Axis |-> Vector(0, 0, nz), StartAngle |-> sa, EndAngle |-> ea,
       Construction |-> FALSE] :
        c \in { ZeroVector, Vector(3, -2, 1) }, r \in { 0, 2 }, xu \in { -1, 0, 1 },
        nz \in { -1, 0, 1 }, sa \in { 0, 1, 2 }, ea \in { 0, 3 } }

Ellipses ==
    { [kind |-> "GeomEllipse", Center |-> c, MajorRadius |-> a, MinorRadius |-> b,
       AngleXU |-> xu, Axis |-> Vector(0, 0, nz), Construction |-> FALSE] :
        c \in { ZeroVector, Vector(3, -2, 1) }, a \in { 0, 3, 4, 5 }, b \in { 0, 3, 4, 5 },
        xu \in { 0, 1, 2 }, nz \in { -1, 1 } }

GeometryObjects == BSplineCurves \cup DecodedBSplineCurves \cup ArcsOfCircle \cup Ellipses

GeometryInit ==
    /\ xml_file = EmptyDocument
    /\ fcstd = Archive(EmptyDocument)
    /\ path = "xml"
    /\ pc = "idle"
    /\ sketch_names = {}
    /\ sketches = EmptyDict
    /\ idx = 0
    /\ label = ""
    /\ geometry = <<>>
    /\ external_geo = <<>>
    /\ external_geo_dict = EmptyDict
    /\ constraints = <<>>
    /\ k = 0
    /\ decoded = <<>>
    /\ ret = [p \in EntryPoints |-> Pending]
    /\ obj \in GeometryObjects
    /\ derived = <<>>
    /\ held = [p \in EntryPoints |-> <<>>]

\* The consumer reads StartPoint, EndPoint and KnotSequence of a B-spline curve.
ReadBSplineProperties ==
    /\ obj.kind = "GeomBSplineCurve"
    /\ derived = <<>>
    /\ derived' = << [StartPoint |-> BSplineStartPoint(obj),
                      EndPoint |-> BSplineEndPoint(obj),
                      KnotSequence |-> KnotSequence(obj)] >>
    /\ UNCHANGED << reader, obj, held >>

\* The consumer reads StartPoint and EndPoint of an arc of circle.
ReadArcPoints ==
    /\ obj.kind = "GeomArcOfCircle"
    /\ derived = <<>>
    /\ derived' = << [StartPoint |-> ArcStartPoint(obj), EndPoint |-> ArcEndPoint(obj)] >>
    /\ UNCHANGED << reader, obj, held >>

\* The consumer reads Focal, Focus1 and Focus2 of an ellipse.
ReadEllipseFoci ==
    /\ obj.kind = "GeomEllipse"
    /\ derived = <<>>
    /\ derived' = << [Focal |-> Focal(obj), Focus1 |-> Focus1(obj),
                      Focus2 |-> Focus2(obj)] >>
    /\ UNCHANGED << reader, obj, held >>

GeometryNext ==
    \/ ReadBSplineProperties
    \/ ReadArcPoints
    \/ ReadEllipseFoci

GeometrySpec == GeometryInit /\ [][GeometryNext]_vars

\* ------------------------------------------------------------------------
\* Properties
\* ------------------------------------------------------------------------

\* The document entry point p reads
SourceOf(p) == IF p = "xml" THEN xml_file ELSE fcstd["Document.xml"]

\* The names of the object-data blocks of r that name a sketch object of r
MatchingNames(r) ==
    IF ~HasChild(r, "ObjectData") THEN {}
    ELSE { Get(Blocks(r)[i], "name", "") : i \in 1 .. Len(Blocks(r)) }
            \cap SketchObjectNames(r)

\* An element with tag t was decoded last
Decoded(t) == decoded # <<>> /\ decoded[1].el.tag = t

\* The call that ended last raised err to its caller
RaisedToCaller(err) == pc = "idle" /\ ret[path] = Raised(err)

\* C1: read_sketches_from_xml is atomic. A call that returns gives a mapping
\* with a Sketch, under its own name, for every object-data block of a sketch
\* object; as soon as the decoding of any element or block raises, the call is over
\* and its caller gets that exception and no mapping, whatever had been decoded.
C1_Atomic ==
    /\ \A p \in EntryPoints :
          ret[p].status = "returned" =>
              /\ DOMAIN ret[p].value = MatchingNames(SourceOf(p))
              /\ \A n \in DOMAIN ret[p].value : ret[p].value[n].Name = n
    /\ (decoded # <<>> /\ ~decoded[1].res.ok) =>
          /\ RaisedToCaller(decoded[1].res)
          /\ ret[path].status = "raised"

\* C1 witness: a geometry or constraint raised after an earlier sketch object of the
\* document had been decoded, and the call raised.
C1_Witness ==
    /\ decoded # <<>>
    /\ decoded[1].el.tag \in { "Geometry", "Constrain" }
    /\ ~decoded[1].res.ok
    /\ DOMAIN sketches # {}
    /\ ret[path].status = "raised"

\* The twelve type tags of the geometry variants
TwelveTypeTags ==
    { "Part::GeomPoint", "Part::GeomLine", "Part::GeomLineSegment", "Part::GeomCircle",
      "Part::GeomArcOfCircle", "Part::GeomEllipse", "Part::GeomArcOfEllipse",
      "Part::GeomHyperbola", "Part::GeomArcOfHyperbola", "Part::GeomParabola",
      "Part::GeomArcOfParabola", "Part::GeomBSplineCurve" }

\* C2: decoding a geometry node whose type tag is none of the twelve (a missing
\* type attribute included) raises the unknown-geometry-type error, and the call
\* raises it to its caller: no Sketch is returned.
C2_UnknownGeometryType ==
    (Decoded("Geometry") /\ Get(decoded[1].el, "type", "") \notin TwelveTypeTags) =>
        /\ decoded[1].res = UnknownGeometryType
        /\ RaisedToCaller(UnknownGeometryType)

\* C2 witness: <Geometry type="Part::Bogus"> was decoded.
C2_Witness ==
    /\ Decoded("Geometry")
    /\ Get(decoded[1].el, "type", "") = "Part::Bogus"
    /\ ret[path].status = "raised"

\* A geometry node of a known type without the nested element of its type
LacksNestedElement(el) ==
    /\ Get(el, "type", "") \in TwelveTypeTags
    /\ ~HasChild(el, RequiredChild[Get(el, "type", "")])

\* C3 as claimed: a known type without its nested element raises an error of another
\* kind (exception class) than an unknown type tag does.
C3_DistinctKind ==
    (Decoded("Geometry") /\ LacksNestedElement(decoded[1].el)) =>
        /\ ~decoded[1].res.ok
        /\ decoded[1].res.cls # UnknownGeometryType.cls

\* C3 amended: a known type without its nested element raises the
\* missing-child-element error to the caller; it is a ValueError like the
\* unknown-type error, and differs from it in its message only.
C3_MissingChildElement ==
    (Decoded("Geometry") /\ LacksNestedElement(decoded[1].el)) =>
        /\ decoded[1].res = MissingChildElement
        /\ RaisedToCaller(MissingChildElement)
        /\ decoded[1].res.cls = "ValueError"
        /\ decoded[1].res.cls = UnknownGeometryType.cls
        /\ decoded[1].res.msg # UnknownGeometryType.msg

\* C3 witness: a <Geometry type="Part::GeomCircle"> without <Circle> was decoded.
C3_Witness ==
    /\ Decoded("Geometry")
    /\ LacksNestedElement(decoded[1].el)
    /\ ret[path].status = "raised"

\* The integer type code of a <Constrain> element (0 when the attribute is absent)
TypeCode(el) == IntAttr(el, "Type", 0)

\* The attributes of a <Constrain> element other than Type convert: its numerals
\* are well formed and its point positions are within 0..3.
OtherAttributesConvert(el) ==
    /\ \A a \in { "Value", "LabelDistance", "LabelPosition" } : FloatOk(el, a)
    /\ \A a \in { "First", "Second", "Third" } : IntOk(el, a)
    /\ \A a \in { "FirstPos", "SecondPos", "ThirdPos" } :
          /\ IntOk(el, a)
          /\ Has(el, a) => IntLiteral[el.attrs[a]] \in 0 .. 3

\* C4 as claimed: a constraint element decodes if and only if its integer type
\* code is in 0..19; in 0..19 it yields a Constraint of the table's name, outside
\* it raises the unknown-constraint-type error.
C4_IfAndOnlyIf ==
    (Decoded("Constrain") /\ IntOk(decoded[1].el, "Type")) =>
        IF TypeCode(decoded[1].el) \in 0 .. 19
        THEN /\ decoded[1].res.ok
             /\ decoded[1].res.val.Type = ConstraintTypeNames[TypeCode(decoded[1].el) + 1]
        ELSE /\ decoded[1].res = UnknownConstraintType
             /\ RaisedToCaller(UnknownConstraintType)

\* C4 amended: a code outside 0..19 raises the unknown-constraint-type error
\* (AssertionError) to the caller; a code in 0..19 yields a Constraint of the
\* table's name (0 gives "None") exactly when the other attributes convert, and
\* otherwise a ValueError reaches the caller.
C4_TypeCode ==
    (Decoded("Constrain") /\ IntOk(decoded[1].el, "Type")) =>
        LET code == TypeCode(decoded[1].el)
            res == decoded[1].res
        IN  /\ code \notin 0 .. 19 =>
                 /\ res = UnknownConstraintType
                 /\ res.cls = "AssertionError"
                 /\ RaisedToCaller(UnknownConstraintType)
            /\ (code \in 0 .. 19 /\ OtherAttributesConvert(decoded[1].el)) =>
                 /\ res.ok
                 /\ res.val.Type = ConstraintTypeNames[code + 1]
                 /\ code = 0 => res.val.Type = "None"
            /\ (code \in 0 .. 19 /\ ~OtherAttributesConvert(decoded[1].el)) =>
                 /\ ~res.ok
                 /\ res.cls = "ValueError"
                 /\ RaisedToCaller(res)

\* C4 witness: after a constraint that decoded, one with type code 20 raised.
C4_Witness ==
    /\ Decoded("Constrain")
    /\ Get(decoded[1].el, "Type", "0") = "20"
    /\ constraints # <<>>
    /\ ret[path].status = "raised"

\* The block decoded last has a property list
DecodedProperties == Decoded("Object") /\ HasChild(decoded[1].el, "Properties")

\* The ids stored on the elements els
ExplicitIds(els) ==
    { IntLiteral[els[i].attrs["id"]] : i \in { j \in 1 .. Len(els) : Has(els[j], "id") } }

\* The decodes of the elements els, in their order
GeometryOf(els) == [i \in 1 .. Len(els) |-> ParseGeometryElement(els[i]).val]

\* C5 as claimed: for a sketch object with an ExternalGeo property the assembler
\* gives a Sketch with the map ExternalGeoDict, whose keys are exactly the ids
\* stored on the external geometry elements, each key mapped to the decode of an
\* element stored with that id, while ExternalGeo holds every element, with or
\* without id.
C5_ExternalGeoDict ==
    (DecodedProperties
        /\ HasProperty(Find(decoded[1].el, "Properties"), "ExternalGeo")) =>
        LET els == GeometryElements(Find(decoded[1].el, "Properties"), "ExternalGeo")
            res == decoded[1].res
        IN  /\ res.ok
            /\ "ExternalGeoDict" \in DOMAIN res.val
            /\ DOMAIN res.val.ExternalGeoDict = ExplicitIds(els)
            /\ \A key \in DOMAIN res.val.ExternalGeoDict :
                  \E i \in 1 .. Len(els) :
                      /\ Has(els[i], "id")
                      /\ IntLiteral[els[i].attrs["id"]] = key
                      /\ res.val.ExternalGeoDict[key] = ParseGeometryElement(els[i]).val
            /\ res.val.ExternalGeo = GeometryOf(els)

\* C6 as claimed: the Sketch the assembler gives for a block holds, in Geometry,
\* ExternalGeo and Constraints, the decode of every element of the block's lists
\* in document order.
C6_DocumentOrder ==
    DecodedProperties =>
        LET props == Find(decoded[1].el, "Properties")
            cons == ConstraintElements(props)
            res == decoded[1].res
        IN  /\ res.ok
            /\ res.val.Geometry = GeometryOf(GeometryElements(props, "Geometry"))
            /\ res.val.ExternalGeo = GeometryOf(GeometryElements(props, "ExternalGeo"))
            /\ res.val.Constraints =
                  [i \in 1 .. Len(cons) |-> ParseConstraintElement(cons[i]).val]

\* Every element of the property list props decodes.
ElementsDecode(props) ==
    LET geo == GeometryElements(props, "Geometry")
        ext == GeometryElements(props, "ExternalGeo")
        cons == ConstraintElements(props)
    IN  /\ \A i \in 1 .. Len(geo) : ParseGeometryElement(geo[i]).ok
        /\ \A i \in 1 .. Len(ext) : ParseGeometryElement(ext[i]).ok /\ IntOk(ext[i], "id")
        /\ \A i \in 1 .. Len(cons) : ParseConstraintElement(cons[i]).ok

\* Document r is well formed: every element of its sketch objects decodes.
WellFormed(r) ==
    HasChild(r, "ObjectData") =>
        \A i \in 1 .. Len(Blocks(r)) :
            (Get(Blocks(r)[i], "name", "") \in SketchObjectNames(r)
                /\ HasChild(Blocks(r)[i], "Properties")) =>
                ElementsDecode(Find(Blocks(r)[i], "Properties"))

\* C7 as claimed: on a well-formed document read_sketches_from_xml returns a
\* mapping whose keys are the names of the blocks of sketch objects, each Sketch
\* under its own name; without sketch objects it returns the empty mapping.
C7_WellFormedDocument ==
    ret["xml"] # Pending =>
        /\ WellFormed(xml_file) =>
              /\ ret["xml"].status = "returned"
              /\ DOMAIN ret["xml"].value = MatchingNames(xml_file)
              /\ \A n \in DOMAIN ret["xml"].value : ret["xml"].value[n].Name = n
        /\ SketchObjectNames(xml_file) = {} => ret["xml"] = Returned(EmptyDict)

\* Entry point p has a document to read
Reads(p) == p = "xml" \/ "Document.xml" \in DOMAIN fcstd

\* The sketch objects the object table of r declares and ObjectData has no block for
WithoutBlock(r) == SketchObjectNames(r) \ MatchingNames(r)

\* C8 as claimed: a sketch object declared in the object table whose block is
\* absent gets a Sketch with empty geometry and constraints in the mapping returned.
C8_AbsentBlockYieldsSketch ==
    \A p \in EntryPoints :
        ret[p].status = "returned" =>
            \A n \in WithoutBlock(SourceOf(p)) :
                /\ n \in DOMAIN ret[p].value
                /\ ret[p].value[n].Geometry = <<>>
                /\ ret[p].value[n].Constraints = <<>>

\* C8 amended: an absent block is no error, and gives no entry: the mapping
\* returned has no key for a declared sketch object without block, and a document
\* none of whose sketch objects has a block gives the empty mapping; a block that is
\* present but has no property list gives a Sketch of that name with empty
\* geometry, external geometry and constraints.
C8_AbsentBlock ==
    /\ \A p \in EntryPoints :
          /\ ret[p].status = "returned" =>
                \A n \in WithoutBlock(SourceOf(p)) : n \notin DOMAIN ret[p].value
          /\ (ret[p] # Pending /\ Reads(p) /\ MatchingNames(SourceOf(p)) = {}) =>
                ret[p] = Returned(EmptyDict)
    /\ (Decoded("Object") /\ ~HasChild(decoded[1].el, "Properties")) =>
          /\ decoded[1].res.ok
          /\ decoded[1].res.val.Name = Get(decoded[1].el, "name", "")
          /\ decoded[1].res.val.Geometry = <<>>
          /\ decoded[1].res.val.ExternalGeo = <<>>
          /\ decoded[1].res.val.Constraints = <<>>

\* C8 witness: a call returned a mapping with a Sketch for one sketch object while
\* another declared sketch object has no block.
C8_Witness ==
    /\ pc = "idle"
    /\ ret[path].status = "returned"
    /\ WithoutBlock(SourceOf(path)) # {}
    /\ DOMAIN ret[path].value # {}

\* The Label property of props holds a string value
HasLabelValue(props) ==
    /\ HasProperty(props, "Label")
    /\ HasChild(FindProperty(props, "Label"), "String")
    /\ Has(Find(FindProperty(props, "Label"), "String"), "value")

\* C9 as claimed: the Sketch the assembler gives has the object's name as Label
\* when the block has no Label property (or no property list at all), and the
\* stored string when the Label property holds one.
C9_Label ==
    Decoded("Object") =>
        LET obj_el == decoded[1].el
            res == decoded[1].res
        IN  /\ (~HasChild(obj_el, "Properties")
                   \/ ~HasProperty(Find(obj_el, "Properties"), "Label")) =>
                  res.ok /\ res.val.Label = Get(obj_el, "name", "")
            /\ (HasChild(obj_el, "Properties")
                   /\ HasLabelValue(Find(obj_el, "Properties"))) =>
                  /\ res.ok
                  /\ res.val.Label =
                        Find(FindProperty(Find(obj_el, "Properties"), "Label"),
                             "String").attrs["value"]

\* C10: the container path and the direct path agree on the same document: both
\* return, with equal mappings (equal keys, Sketches equal field by field), or
\* both raise.
C10_SamePaths ==
    ("Document.xml" \in DOMAIN fcstd /\ fcstd["Document.xml"] = xml_file
        /\ ret["xml"] # Pending /\ ret["fcstd"] # Pending) =>
        /\ ret["xml"].status = ret["fcstd"].status
        /\ ret["xml"].status = "returned" =>
              /\ DOMAIN ret["xml"].value = DOMAIN ret["fcstd"].value
              /\ \A n \in DOMAIN ret["xml"].value :
                    \A f \in DOMAIN SketchDefaults :
                        ret["xml"].value[n][f] = ret["fcstd"].value[n][f]

\* C10 witness: both paths returned a mapping that holds a Sketch.
C10_Witness ==
    /\ "Document.xml" \in DOMAIN fcstd
    /\ fcstd["Document.xml"] = xml_file
    /\ ret["xml"].status = "returned"
    /\ ret["fcstd"].status = "returned"
    /\ DOMAIN ret["xml"].value # {}

\* The optional attributes of a <Constrain> element that fill a Constraint field
OptionalConstraintAttrs ==
    { "Value", "First", "FirstPos", "Second", "SecondPos", "Third", "ThirdPos",
      "IsDriving", "IsInVirtualSpace", "IsActive", "LabelDistance", "LabelPosition" }

\* The value a Constraint field takes for a present attribute: the number of a
\* numeral, the member of a point position, the truth of the flag "1"
StoredValue(el, a) ==
    CASE a \in { "Value", "LabelDistance", "LabelPosition" } -> FloatLiteral[el.attrs[a]]
      [] a \in { "First", "Second", "Third" } -> IntLiteral[el.attrs[a]]
      [] a \in { "FirstPos", "SecondPos", "ThirdPos" } ->
            << "none", "start", "end", "mid" >>[IntLiteral[el.attrs[a]] + 1]
      [] OTHER -> el.attrs[a] = "1"

\* The value a Constraint field takes when its attribute is absent
AbsentValue ==
    [Value |-> 0, First |-> -2000, FirstPos |-> "none", Second |-> -2000,
     SecondPos |-> "none", Third |-> -2000, ThirdPos |-> "none", IsDriving |-> TRUE,
     IsInVirtualSpace |-> FALSE, IsActive |-> TRUE, LabelDistance |-> 10,
     LabelPosition |-> 0]

\* The field of Constraint an attribute fills
FieldOf(a) ==
    CASE a = "IsDriving" -> "Driving"
      [] a = "IsInVirtualSpace" -> "InVirtualSpace"
      [] OTHER -> a

\* C11: a constraint element with a valid type code decodes, its present
\* attributes converting, to a Constraint each of whose optional fields holds the
\* stored value when its attribute is present and otherwise its default: -2000
\* for First, Second and Third, none for the three positions, true for Driving
\* and IsActive, false for InVirtualSpace, 0.0 for Value and LabelPosition, 10.0
\* for LabelDistance. An absent attribute never raises.
C11_ConstraintDefaults ==
    (Decoded("Constrain") /\ IntOk(decoded[1].el, "Type")
        /\ TypeCode(decoded[1].el) \in 0 .. 19
        /\ OtherAttributesConvert(decoded[1].el)) =>
        /\ decoded[1].res.ok
        /\ \A a \in OptionalConstraintAttrs :
              decoded[1].res.val[FieldOf(a)] =
                  IF Has(decoded[1].el, a) THEN StoredValue(decoded[1].el, a)
                  ELSE AbsentValue[a]

\* C11 witness: a constraint element with a type code and no optional attribute
\* decoded, and so did one that stores some of them.
C11_Witness ==
    /\ Decoded("Constrain")
    /\ Has(decoded[1].el, "Type")
    /\ DOMAIN decoded[1].el.attrs \cap OptionalConstraintAttrs = {}
    /\ decoded[1].res.ok
    /\ decoded[1].res.val.LabelDistance = 10
    /\ \E i \in 1 .. Len(constraints) - 1 :
          constraints[i].Driving = FALSE /\ constraints[i].First = 1

\* The consumer has read the properties of an object of this kind
HasRead(kind) == derived # <<>> /\ obj.kind = kind

\* The sum of a sequence of integers
RECURSIVE SeqSum(_)
SeqSum(counts) == IF counts = <<>> THEN 0 ELSE Head(counts) + SeqSum(Tail(counts))

\* seq is, knot after knot in the stored order, counts[i] copies of the value of
\* knot i
IsExpansion(seq, knots, counts) ==
    /\ Len(seq) = SeqSum(counts)
    /\ \A i \in 1 .. Len(knots) :
          \A j \in (SeqSum(SubSeq(counts, 1, i - 1)) + 1) .. SeqSum(SubSeq(counts, 1, i)) :
              seq[j] = knots[i].Value

\* C12 as claimed: KnotSequence is the concatenation, in stored knot order, of
\* Mult copies of Value for each knot, and its length is the sum of the
\* multiplicities.
C12_SumOfMultiplicities ==
    HasRead("GeomBSplineCurve") =>
        IsExpansion(derived[1].KnotSequence, obj.Knots,
                    [i \in 1 .. Len(obj.Knots) |-> obj.Knots[i].Mult])

\* C12 amended: KnotSequence is the concatenation, in stored knot order and
\* without sorting or deduplication, of Mult copies of Value for each knot with a
\* positive Mult, a knot with a zero or negative Mult giving none; its length is
\* the sum of the positive multiplicities, hence of all of them when none is
\* negative. Knots [(0.0, 3), (1.0, 3)] give [0,0,0,1,1,1].
C12_KnotSequence ==
    HasRead("GeomBSplineCurve") =>
        LET seq == derived[1].KnotSequence
            mults == [i \in 1 .. Len(obj.Knots) |-> obj.Knots[i].Mult]
        IN  /\ IsExpansion(seq, obj.Knots,
                           [i \in 1 .. Len(mults) |-> IF mults[i] > 0 THEN mults[i] ELSE 0])
            /\ (\A i \in 1 .. Len(mults) : mults[i] >= 0) => Len(seq) = SeqSum(mults)
            /\ obj.Knots = << [Value |-> 0, Mult |-> 3], [Value |-> 1, Mult |-> 3] >> =>
                  seq = << 0, 0, 0, 1, 1, 1 >>

\* C12 witness: the knot sequence of a curve with knots (1.0, 3), (0.0, 3), stored
\* out of order, was read and has six entries.
C12_Witness ==
    /\ HasRead("GeomBSplineCurve")
    /\ obj.Knots = << [Value |-> 1, Mult |-> 3], [Value |-> 0, Mult |-> 3] >>
    /\ derived[1].KnotSequence = << 1, 1, 1, 0, 0, 0 >>

\* C13: StartPoint of a B-spline curve is the Point of its first pole and
\* EndPoint the Point of its last pole, whatever its knots, weights, degree and
\* periodicity; with no pole both are the zero vector, and nothing is raised.
C13_FirstAndLastPole ==
    HasRead("GeomBSplineCurve") =>
        IF Len(obj.Poles) = 0
        THEN /\ derived[1].StartPoint = [x |-> 0, y |-> 0, z |-> 0]
             /\ derived[1].EndPoint = [x |-> 0, y |-> 0, z |-> 0]
        ELSE /\ derived[1].StartPoint = Head(obj.Poles).Point
             /\ derived[1].EndPoint = obj.Poles[Len(obj.Poles)].Point

\* C13 witness: the end points of a curve with two different poles, and with
\* knots, were read.
C13_Witness ==
    /\ HasRead("GeomBSplineCurve")
    /\ Len(obj.Poles) = 2
    /\ obj.Knots # <<>>
    /\ derived[1].StartPoint = [x |-> 1, y |-> 0, z |-> 0]
    /\ derived[1].EndPoint = [x |-> 0, y |-> 4, z |-> 0]

\* C13 holds without poles: both end points of a curve without poles were read.
C13_WitnessNoPole ==
    /\ HasRead("GeomBSplineCurve")
    /\ obj.Poles = <<>>
    /\ derived[1].StartPoint = derived[1].EndPoint

\* Center + (Radius*cos(AngleXU + a), s*Radius*sin(AngleXU + a), 0), in
\* thousandths, s being +1 when Axis.z >= 0 and -1 otherwise
PointAtAngle(arc, a) ==
    LET s == IF arc.Axis.z >= 0 THEN 1 ELSE -1 IN
    [x |-> 1000 * arc.Center.x + arc.Radius * Cos(arc.AngleXU + a),
     y |-> 1000 * arc.Center.y + s * arc.Radius * Sin(arc.AngleXU + a),
     z |-> 1000 * arc.Center.z]

\* C14: StartPoint and EndPoint of an arc of circle are Center + (Radius*cos(AngleXU
\* + a), s*Radius*sin(AngleXU + a), 0) for a = StartAngle and a = EndAngle, with
\* s = +1 when Axis.z >= 0, zero included, and -1 otherwise: only the sine term
\* is mirrored and z is Center.z. With AngleXU = 0 and StartAngle = 0, StartPoint
\* is (Center.x + Radius, Center.y, Center.z) for either sign of Axis.z.
C14_ArcPoints ==
    HasRead("GeomArcOfCircle") =>
        /\ derived[1].StartPoint = PointAtAngle(obj, obj.StartAngle)
        /\ derived[1].EndPoint = PointAtAngle(obj, obj.EndAngle)
        /\ derived[1].StartPoint.z = 1000 * obj.Center.z
        /\ (obj.AngleXU = 0 /\ obj.StartAngle = 0) =>
              derived[1].StartPoint =
                  [x |-> 1000 * (obj.Center.x + obj.Radius), y |-> 1000 * obj.Center.y,
                   z |-> 1000 * obj.Center.z]

\* C14 witness: the points of an arc whose Axis.z is zero were read, the sine
\* term of its start point being 2*sin(1), not mirrored.
C14_Witness ==
    /\ HasRead("GeomArcOfCircle")
    /\ obj.Axis.z = 0
    /\ obj.Radius = 2
    /\ obj.AngleXU + obj.StartAngle = 1
    /\ derived[1].StartPoint.y = 1000 * obj.Center.y + 1682

\* C14 on a reversed arc: the sine term of the end point is mirrored, the cosine
\* term is not.
C14_WitnessMirrored ==
    /\ HasRead("GeomArcOfCircle")
    /\ obj.Axis.z < 0
    /\ obj.Radius = 2
    /\ obj.AngleXU + obj.EndAngle = 2
    /\ derived[1].EndPoint.x = 1000 * obj.Center.x - 832
    /\ derived[1].EndPoint.y = 1000 * obj.Center.y - 1818

\* root is the square root of the whole number v, in thousandths (rounded down)
IsRoot(root, v) ==
    /\ root >= 0
    /\ root * root <= 1000000 * v
    /\ (root + 1) * (root + 1) > 1000000 * v

\* The ellipse with its two radii swapped
Swapped(ellipse) ==
    [ellipse EXCEPT !.MajorRadius = ellipse.MinorRadius, !.MinorRadius = ellipse.MajorRadius]

\* C15: Focal of an ellipse is sqrt(|MajorRadius^2 - MinorRadius^2|), the same
\* when the radii are swapped; Focus1 is Center + Focal*(cos AngleXU, sin AngleXU,
\* 0) and Focus2 is Center - Focal*(cos AngleXU, sin AngleXU, 0), whatever the
\* normal axis. MajorRadius 5, MinorRadius 3, AngleXU 0 and Center (0,0,0) give
\* Focal 4, Focus1 (4,0,0) and Focus2 (-4,0,0).
C15_Foci ==
    HasRead("GeomEllipse") =>
        LET a == obj.MajorRadius
            b == obj.MinorRadius
            f == derived[1].Focal
            fx == (f * Cos(obj.AngleXU)) \div 1000
            fy == (f * Sin(obj.AngleXU)) \div 1000
        IN  /\ IsRoot(f, IF a * a >= b * b THEN a * a - b * b ELSE b * b - a * a)
            /\ f = Focal(Swapped(obj))
            /\ derived[1].Focus1 =
                  [x |-> 1000 * obj.Center.x + fx, y |-> 1000 * obj.Center.y + fy,
                   z |-> 1000 * obj.Center.z]
            /\ derived[1].Focus2 =
                  [x |-> 1000 * obj.Center.x - fx, y |-> 1000 * obj.Center.y - fy,
                   z |-> 1000 * obj.Center.z]
            /\ (a = 5 /\ b = 3 /\ obj.AngleXU = 0 /\ obj.Center = [x |-> 0, y |-> 0, z |-> 0]) =>
                  /\ f = 4000
                  /\ derived[1].Focus1 = [x |-> 4000, y |-> 0, z |-> 0]
                  /\ derived[1].Focus2 = [x |-> -4000, y |-> 0, z |-> 0]

\* C15 witness: the foci of an ellipse with MajorRadius 3 and MinorRadius 5,
\* turned by one radian and with a reversed normal, were read: Focal is 4.
C15_Witness ==
    /\ HasRead("GeomEllipse")
    /\ obj.MajorRadius = 3
    /\ obj.MinorRadius = 5
    /\ obj.AngleXU = 1
    /\ obj.Axis.z < 0
    /\ derived[1].Focal = 4000
    /\ derived[1].Focus1.y = 1000 * obj.Center.y + 3364
    /\ derived[1].Focus2.y = 1000 * obj.Center.y - 3364

DecodedBSpline ==
    /\ Decoded("Geometry")
    /\ Get(decoded[1].el, "type", "") = "Part::GeomBSplineCurve"
    /\ HasChild(decoded[1].el, "BSplineCurve")

\* The children of the <BSplineCurve> element decoded last
BSplineKidsDecoded == Find(decoded[1].el, "BSplineCurve").kids

\* The number an attribute stores, or its default
NumberOr(el, attr, default) ==
    IF attr \in DOMAIN el.attrs THEN FloatLiteral[el.attrs[attr]] ELSE default

\* C17: decoding a <BSplineCurve> collects its Pole children into Poles and its
\* Knot children into Knots, each kind in the order of the document however the
\* two are interleaved, and ignores a child with any other tag; a Pole without
\* Weight gets 1.0, a Knot without Mult gets 1.
C17_BSplineChildren ==
    (DecodedBSpline /\ decoded[1].res.ok) =>
        LET pole_els == SelectSeq(BSplineKidsDecoded, LAMBDA c : c.tag = "Pole")
            knot_els == SelectSeq(BSplineKidsDecoded, LAMBDA c : c.tag = "Knot")
            curve == decoded[1].res.val
        IN  /\ Len(curve.Poles) = Len(pole_els)
            /\ Len(curve.Knots) = Len(knot_els)
            /\ \A i \in 1 .. Len(pole_els) :
                  /\ curve.Poles[i].Point =
                        [x |-> NumberOr(pole_els[i], "X", 0), y |-> NumberOr(pole_els[i], "Y", 0),
                         z |-> NumberOr(pole_els[i], "Z", 0)]
                  /\ curve.Poles[i].Weight = NumberOr(pole_els[i], "Weight", 1)
            /\ \A i \in 1 .. Len(knot_els) :
                  /\ curve.Knots[i].Value = NumberOr(knot_els[i], "Value", 0)
                  /\ curve.Knots[i].Mult = NumberOr(knot_els[i], "Mult", 1)

\* C17 witness: a curve stored as pole, knot, pole was decoded: two poles in the
\* order of the document, the second with Weight 1.0, and one knot with Mult 1.
C17_Witness ==
    /\ DecodedBSpline
    /\ decoded[1].res.ok
    /\ Len(BSplineKidsDecoded) = 3
    /\ BSplineKidsDecoded[1].tag = "Pole"
    /\ BSplineKidsDecoded[2].tag = "Knot"
    /\ BSplineKidsDecoded[3].tag = "Pole"
    /\ decoded[1].res.val.Poles =
          << [Point |-> [x |-> 1, y |-> 0, z |-> 0], Weight |-> 2],
             [Point |-> [x |-> 0, y |-> 4, z |-> 0], Weight |-> 1] >>
    /\ decoded[1].res.val.Knots = << [Value |-> 1, Mult |-> 1] >>

\* C17 on a child that is neither pole nor knot: it is passed over.
C17_WitnessIgnored ==
    /\ DecodedBSpline
    /\ decoded[1].res.ok
    /\ \E i \in 1 .. Len(BSplineKidsDecoded) : BSplineKidsDecoded[i].tag = "Extension"
    /\ Len(decoded[1].res.val.Poles) + Len(decoded[1].res.val.Knots)
          = Len(BSplineKidsDecoded) - 1
    /\ decoded[1].res.val.Poles # <<>>
    /\ decoded[1].res.val.Knots # <<>>

\* The names the object table of r declares with the type of a sketch object
SketchTyped(r) ==
    { e.attrs["name"] :
        e \in { o \in UNION { { t.kids[i] : i \in 1 .. Len(t.kids) } :
                              t \in { r.kids[j] : j \in { m \in 1 .. Len(r.kids) :
                                                             r.kids[m].tag = "Objects" } } } :
                  /\ o.tag = "Object"
                  /\ "type" \in DOMAIN o.attrs /\ o.attrs["type"] = "Sketcher::SketchObject"
                  /\ "name" \in DOMAIN o.attrs } }

\* The object-data blocks of r
DataBlocks(r) == IF HasChild(r, "ObjectData") THEN Blocks(r) ELSE <<>>

\* No block of r that belongs to a sketch object can raise: none has a property list
SketchBlocksPlain(r) ==
    \A i \in 1 .. Len(DataBlocks(r)) :
        Get(DataBlocks(r)[i], "name", "") \in SketchTyped(r) =>
            ~HasChild(DataBlocks(r)[i], "Properties")

\* Some block of r that belongs to no sketch object holds the property list props
ForeignBlockWith(r, props) ==
    \E i \in 1 .. Len(DataBlocks(r)) :
        /\ Get(DataBlocks(r)[i], "name", "") \notin SketchTyped(r)
        /\ DataBlocks(r)[i].kids = << props >>

C18_WitnessOthers ==
    /\ pc = "idle"
    /\ path = "xml"
    /\ ret["xml"].status = "returned"
    /\ sketch_names # {}
    /\ idx > Len(DataBlocks(xml_file))
    /\ ForeignBlockWith(xml_file, ChildlessGeometryProperties)
    /\ ForeignBlockWith(xml_file, BadConstraintProperties)

\* The property list props stores FullyConstrained with a Bool child whose
\* value is "true"
StoredFullyConstrained(props) ==
    \E i \in 1 .. Len(props.kids) :
        /\ props.kids[i].tag = "Property"
        /\ "name" \in DOMAIN props.kids[i].attrs
        /\ props.kids[i].attrs["name"] = "FullyConstrained"
        /\ \A j \in 1 .. i - 1 :
              ~(props.kids[j].tag = "Property" /\ "name" \in DOMAIN props.kids[j].attrs
                  /\ props.kids[j].attrs["name"] = "FullyConstrained")
        /\ \E b \in 1 .. Len(props.kids[i].kids) :
              /\ props.kids[i].kids[b].tag = "Bool"
              /\ \A c \in 1 .. b - 1 : props.kids[i].kids[c].tag # "Bool"
              /\ "value" \in DOMAIN props.kids[i].kids[b].attrs
              /\ props.kids[i].kids[b].attrs["value"] = "true"

\* C19: the assembler produces, for every block of a sketch object, a Sketch
\* whose FullyConstrained is true when the property list stores FullyConstrained
\* with a Bool child of value "true", and false when the property or the Bool
\* child is absent or the value is anything else; none of these cases raises.
C19_FullyConstrained ==
    Decoded("Object") =>
        /\ decoded[1].res.ok
        /\ decoded[1].res.val.FullyConstrained
              = (/\ HasChild(decoded[1].el, "Properties")
                 /\ StoredFullyConstrained(Find(decoded[1].el, "Properties")))

\* A position attribute of el is present with an integer outside 0..3
PositionOutOfRange(el) ==
    \E a \in { "FirstPos", "SecondPos", "ThirdPos" } :
        /\ a \in DOMAIN el.attrs
        /\ el.attrs[a] \in DOMAIN IntLiteral
        /\ IntLiteral[el.attrs[a]] \notin 0 .. 3

\* C20: a constraint whose FirstPos, SecondPos or ThirdPos is present with an
\* integer outside 0..3 does not decode with the position defaulted to none: its
\* decoding raises, and the exception ends the read and reaches the caller. When
\* the type code is valid the exception is a ValueError, not the AssertionError
\* of an unknown constraint type.
C20_PositionOutOfRange ==
    (Decoded("Constrain") /\ PositionOutOfRange(decoded[1].el)) =>
        /\ ~decoded[1].res.ok
        /\ RaisedToCaller(decoded[1].res)
        /\ (IntOk(decoded[1].el, "Type") /\ TypeCode(decoded[1].el) \in 0 .. 19) =>
              /\ decoded[1].res.cls = "ValueError"
              /\ decoded[1].res.cls # UnknownConstraintType.cls
              /\ decoded[1].res # UnknownConstraintType

\* C20 witness: a constraint with type code 1 and SecondPos -1 raised ValueError
\* to the caller after an earlier constraint had decoded.
C20_Witness ==
    /\ Decoded("Constrain")
    /\ Get(decoded[1].el, "Type", "") = "1"
    /\ Get(decoded[1].el, "SecondPos", "") = "-1"
    /\ constraints # <<>>
    /\ pc = "idle"
    /\ ret[path].status = "raised"
    /\ ret[path].error.cls = "ValueError"

\* The names the object table of r declares for sketch objects, a missing or
\* empty name left out
SketchNamed(r) == SketchTyped(r) \ { "" }

\* The name of the block at position i of the object data of r
BlockName(r, i) ==
    IF "name" \in DOMAIN DataBlocks(r)[i].attrs THEN DataBlocks(r)[i].attrs["name"] ELSE ""

\* The names sketches has an entry for are those of the sketch objects that
\* have a block among the first n blocks of r
EntriesOfFirst(r, n, mapping) ==
    DOMAIN mapping
        = { BlockName(r, i) : i \in { j \in 1 .. n : BlockName(r, j) \in SketchNamed(r) } }

\* A step of the loop of read_sketches_from_xml that leaves the block at idx
\* has decoded it if it belongs to a sketch object, and has put its Sketch under
\* its name, in place of the entry an earlier block of that name had left;
\* the loop goes to the next block of the document.
PassesBlock ==
    (pc # "idle" /\ idx' # idx) =>
        /\ idx' = idx + 1
        /\ LET b == DataBlocks(Root)[idx]
               n == BlockName(Root, idx)
           IN  IF n \in SketchNamed(Root)
               THEN /\ decoded' # <<>>
                    /\ decoded'[1].el = b
                    /\ decoded'[1].res.ok
                    /\ DOMAIN sketches' = DOMAIN sketches \cup { n }
                    /\ sketches'[n] = decoded'[1].res.val
                    /\ \A m \in DOMAIN sketches \ { n } : sketches'[m] = sketches[m]
               ELSE sketches' = sketches

\* C21: every object-data block that bears the name of a sketch object is
\* decoded, in document order, several blocks of one name included, so that an
\* error in any of them ends the read at that block; the result has one entry
\* for such a name, the Sketch of the last block of that name; an entry of the
\* object table typed as a sketch object but with a missing or empty name
\* gives no key.
C21_DuplicateBlocks ==
    /\ [](/\ pc # "idle" => EntriesOfFirst(Root, idx - 1, sketches)
          /\ \A p \in EntryPoints :
                ret[p].status = "returned" =>
                    /\ EntriesOfFirst(SourceOf(p), Len(DataBlocks(SourceOf(p))), ret[p].value)
                    /\ "" \notin DOMAIN ret[p].value
          /\ (pc = "idle" /\ ret[path].status = "raised" /\ decoded # <<>>) =>
                /\ idx \in 1 .. Len(DataBlocks(Root))
                /\ BlockName(Root, idx) \in SketchNamed(Root)
                /\ EntriesOfFirst(Root, idx - 1, sketches))
    /\ [][PassesBlock]_vars

\* C21 witness: two blocks named Sketch were decoded one after the other and the
\* call returned one entry, under Sketch.
C21_Witness ==
    /\ pc = "idle"
    /\ ret[path].status = "returned"
    /\ Len(DataBlocks(Root)) = 2
    /\ BlockName(Root, 1) = "Sketch"
    /\ BlockName(Root, 2) = "Sketch"
    /\ idx = 3
    /\ DOMAIN ret[path].value = { "Sketch" }
    /\ ret[path].value["Sketch"] = decoded[1].res.val

\* C21 on an error in the second block of a name: the first block had given an
\* entry, the second raised and the call raised.
C21_WitnessAbort ==
    /\ pc = "idle"
    /\ ret[path].status = "raised"
    /\ decoded # <<>>
    /\ Len(DataBlocks(Root)) = 2
    /\ BlockName(Root, 1) = "Sketch"
    /\ BlockName(Root, 2) = "Sketch"
    /\ idx = 2
    /\ DOMAIN sketches = { "Sketch" }

\* C21 on names: the object table has sketch objects without a name and with
\* the empty name, the object data has a block without a name, and the call
\* returned the entry of the named sketch object alone.
C21_WitnessNameless ==
    /\ pc = "idle"
    /\ ret[path].status = "returned"
    /\ "" \in SketchTyped(Root)
    /\ \E i \in 1 .. Len(DataBlocks(Root)) : BlockName(Root, i) = ""
    /\ DOMAIN ret[path].value = { "Sketch" }

====
